---- MODULE Spec2Model ----
(***************************************************************************)
(* A model of the rawsample / audioboiler crates: the sample codec         *)
(* (src/src/lib.rs), the buffer traits (audioboiler_traits) and the        *)
(* layout wrappers (audioboiler_buffers).                                  *)
(*                                                                         *)
(* Floating point values are modelled exactly as dyadic rationals m * 2^e  *)
(* with m odd (or m = 0, e = 0).  An f32 keeps 24 significant bits, an f64 *)
(* 53; the values the model draws have at most 31 significant bits, so the *)
(* f64 arithmetic on them is exact and only f32 ever rounds.  NaN, the     *)
(* infinities, negative zero and subnormals are outside the model.         *)
(***************************************************************************)
EXTENDS Integers, Sequences, FiniteSets, TLC

VARIABLES
    wrapper,    \* the wrapper constructed, its kind and extents
    buf,        \* the storage the wrapper borrows
    call,       \* the last call made, its arguments and what it returned
    logical,    \* for each coordinate, the value last stored at it
    nwrites,    \* the number of writes made through the wrapper
    conv,       \* the last call of the sample codec
    iters       \* the iterators made of the wrapper and the references they yielded

vars == <<wrapper, buf, call, logical, nwrites, conv, iters>>

(***************************************************************************)
(* Bounds of the model.                                                    *)
(***************************************************************************)
\* the codec inputs include every k / 8 with |k| <= MaxEighths
MaxEighths == 9

\* the extents of the wrappers
MaxChannels == 2

MaxFrames == 3

\* the number of writes a session makes, and the values it writes
MaxWrites == 2

MaxSample == 2

\* the number of writes a session makes through a byte wrapper
MaxByteWrites == 1

\* the length of the slices handed to the bulk transfers
MaxSlice == 2

\* the decoded integers lie within MaxCode of zero, of a half and of the
\* ends of the format's range
MaxCode == 2

\* the number of iterators a session makes of the wrapper
MaxIters == 2

\* the number of calls of next made on an iterator that is exhausted
MaxNone == 2

\* the number of frames of the wrappers whose statistics are taken
MaxRun == 4

\* the period with which the samples of those wrappers repeat
MaxPeriod == 3

\* the number of whole samples a source of the reader holds
MaxSource == 3

\* the length of the output of the reader
MaxOutput == 4

(***************************************************************************)
(* Integer and floating point primitives of the language.                  *)
(***************************************************************************)
RECURSIVE Pow2(_)
Pow2(n) == IF n <= 0 THEN 1 ELSE 2 * Pow2(n - 1)

RECURSIVE BitLen(_)
BitLen(n) == IF n <= 0 THEN 0 ELSE 1 + BitLen(n \div 2)

Abs(n) == IF n < 0 THEN -n ELSE n

Sgn(n) == IF n < 0 THEN -1 ELSE IF n > 0 THEN 1 ELSE 0

\* the float m * 2^e in normal form
RECURSIVE Flt(_, _)
Flt(m, e) ==
    IF m = 0 THEN [m |-> 0, e |-> 0]
    ELSE IF m % 2 = 0 THEN Flt(m \div 2, e + 1)
    ELSE [m |-> m, e |-> e]

FNeg(x) == [m |-> -x.m, e |-> x.e]

\* significant bits of the two sample types
MantBits(T) == IF T = "f32" THEN 24 ELSE 53

\* x rounded to the precision of T, to nearest, ties to even
RoundTo(T, x) ==
    LET a == Abs(x.m)
        d == BitLen(a) - MantBits(T)
    IN  IF d <= 0 THEN x
        ELSE LET q == a \div Pow2(d)
                 r == a % Pow2(d)
                 h == Pow2(d - 1)
                 up == IF r > h \/ (r = h /\ q % 2 = 1) THEN q + 1 ELSE q
             IN  Flt(Sgn(x.m) * up, x.e + d)

\* position of the leading bit: 2^(Top-1) <= |x| < 2^Top for x # 0
Top(x) == x.e + BitLen(Abs(x.m))

\* |x| < |y| for x, y # 0
MagLt(x, y) ==
    IF Top(x) # Top(y) THEN Top(x) < Top(y)
    ELSE LET lx == BitLen(Abs(x.m))
             ly == BitLen(Abs(y.m))
             l == IF lx > ly THEN lx ELSE ly
         IN  Abs(x.m) * Pow2(l - lx) < Abs(y.m) * Pow2(l - ly)

\* x < y
FLt(x, y) ==
    IF Sgn(x.m) # Sgn(y.m) THEN Sgn(x.m) < Sgn(y.m)
    ELSE IF Sgn(x.m) = 0 THEN FALSE
    ELSE IF Sgn(x.m) = 1 THEN MagLt(x, y)
    ELSE MagLt(y, x)

FGt(x, y) == FLt(y, x)

FGe(x, y) == ~FLt(x, y)

\* x * y in T, for y a power of two
FMul(T, x, y) == RoundTo(T, Flt(x.m * y.m, x.e + y.e))

\* x / y in T, for y a power of two
FDiv(T, x, y) == RoundTo(T, Flt(x.m, x.e - y.e))

\* U::max_value() and U::min_value() of the integer types i16 and i32
IntMax(U) == IF U = "i16" THEN 32767 ELSE 2147483647

IntMin(U) == -IntMax(U) - 1

IntBits(U) == IF U = "i16" THEN 16 ELSE 32

\* T::from(n): the integer n as a T, rounded to nearest
FromInt(T, n) == RoundTo(T, Flt(n, 0))

\* `x as U`: truncation toward zero, saturating at the bounds of U
CastInt(x, U) ==
    LET a == Abs(x.m)
    IN  IF x.m = 0 THEN 0
        ELSE IF Top(x) > IntBits(U) - 1
             THEN (IF x.m > 0 THEN IntMax(U) ELSE IntMin(U))
        ELSE IF x.e >= 0 THEN x.m * Pow2(x.e)
        ELSE IF -x.e >= BitLen(a) THEN 0
        ELSE Sgn(x.m) * (a \div Pow2(-x.e))

\* the n bytes of the two's complement integer x, least significant first
to_le_bytes(x, n) == [i \in 1..n |-> (x \div Pow2(8 * (i - 1))) % 256]

Reverse(s) == [i \in 1..Len(s) |-> s[Len(s) + 1 - i]]

to_be_bytes(x, n) == Reverse(to_le_bytes(x, n))

\* the IEEE-754 binary32 image of x, most significant byte first
F32BeBytes(x) ==
    IF x.m = 0 THEN <<0, 0, 0, 0>>
    ELSE LET a == Abs(x.m)
             l == BitLen(a)
             biased == Top(x) - 1 + 127
             frac == (a - Pow2(l - 1)) * Pow2(24 - l)
             s == IF x.m < 0 THEN 128 ELSE 0
         IN  << s + biased \div 2,
                (biased % 2) * 128 + frac \div 65536,
                (frac \div 256) % 256,
                frac % 256 >>

\* the IEEE-754 binary64 image of x, most significant byte first
F64BeBytes(x) ==
    IF x.m = 0 THEN <<0, 0, 0, 0, 0, 0, 0, 0>>
    ELSE LET a == Abs(x.m)
             l == BitLen(a)
             biased == Top(x) - 1 + 1023
             \* the leading 30 bits of the 52-bit fraction; the rest are zero
             fr == (a - Pow2(l - 1)) * Pow2(31 - l)
             s == IF x.m < 0 THEN 128 ELSE 0
         IN  << s + biased \div 16,
                (biased % 16) * 16 + fr \div Pow2(26),
                (fr \div Pow2(18)) % 256,
                (fr \div Pow2(10)) % 256,
                (fr \div 4) % 256,
                (fr % 4) * 64,
                0, 0 >>

(***************************************************************************)
(* The codec: impl Sample<f64> for f64 and impl Sample<f32> for f32.       *)
(* T is the sample type, "f32" or "f64"; the two impls differ only in the  *)
(* precision of the arithmetic and in the float-to-float conversions.      *)
(***************************************************************************)
MAX_I32 == [m |-> 1, e |-> 31]

MAX_I16 == [m |-> 1, e |-> 15]

One == [m |-> 1, e |-> 0]

\* clamp_int with the comparisons of clamp_float: the bounds themselves clip
clamp_int_inclusive(T, U, value) ==
    IF FGe(value, FromInt(T, IntMax(U)))
    THEN [val |-> FromInt(T, IntMax(U)), clipped |-> TRUE]
    ELSE IF FLt(value, FromInt(T, IntMin(U)))
    THEN [val |-> FromInt(T, IntMin(U)), clipped |-> TRUE]
    ELSE [val |-> value, clipped |-> FALSE]

\* Clamp a float value to the range supported by an integer type
clamp_int(T, U, value) ==
    IF FGt(value, FromInt(T, IntMax(U)))
    THEN [val |-> FromInt(T, IntMax(U)), clipped |-> TRUE]
    ELSE IF FLt(value, FromInt(T, IntMin(U)))
    THEN [val |-> FromInt(T, IntMin(U)), clipped |-> TRUE]
    ELSE [val |-> value, clipped |-> FALSE]

\* Clamp a float value to the -1.0 .. +1.0
clamp_float(value) ==
    IF FGe(value, One) THEN [val |-> One, clipped |-> TRUE]
    ELSE IF FLt(value, FNeg(One)) THEN [val |-> FNeg(One), clipped |-> TRUE]
    ELSE [val |-> value, clipped |-> FALSE]

to_s16_le(T, self) ==
    LET c == clamp_int(T, "i16", FMul(T, self, MAX_I16))
    IN  [bytes |-> to_le_bytes(CastInt(c.val, "i16"), 2), clipped |-> c.clipped]

to_s16_be(T, self) ==
    LET c == clamp_int(T, "i16", FMul(T, self, MAX_I16))
    IN  [bytes |-> to_be_bytes(CastInt(c.val, "i16"), 2), clipped |-> c.clipped]

to_s32_le(T, self) ==
    LET c == clamp_int(T, "i32", FMul(T, self, MAX_I32))
    IN  [bytes |-> to_le_bytes(CastInt(c.val, "i32"), 4), clipped |-> c.clipped]

to_s32_be(T, self) ==
    LET c == clamp_int(T, "i32", FMul(T, self, MAX_I32))
    IN  [bytes |-> to_be_bytes(CastInt(c.val, "i32"), 4), clipped |-> c.clipped]

\* a faulty to_s24_3_le, against which the relation of the 24-bit to the
\* 32-bit encoding is validated: the three low bytes are kept
to_s24_3_le_low(T, self) ==
    LET c == clamp_int(T, "i32", FMul(T, self, MAX_I32))
        bytes == to_le_bytes(CastInt(c.val, "i32"), 4)
    IN  [bytes |-> <<bytes[1], bytes[2], bytes[3]>>, clipped |-> c.clipped]

to_s24_3_le(T, self) ==
    LET c == clamp_int(T, "i32", FMul(T, self, MAX_I32))
        bytes == to_le_bytes(CastInt(c.val, "i32"), 4)
    IN  [bytes |-> <<bytes[2], bytes[3], bytes[4]>>, clipped |-> c.clipped]

to_s24_3_be(T, self) ==
    LET c == clamp_int(T, "i32", FMul(T, self, MAX_I32))
        bytes == to_be_bytes(CastInt(c.val, "i32"), 4)
    IN  [bytes |-> <<bytes[1], bytes[2], bytes[3]>>, clipped |-> c.clipped]

to_s24_4_le(T, self) ==
    LET c == clamp_int(T, "i32", FMul(T, self, MAX_I32))
        bytes == to_le_bytes(CastInt(c.val, "i32"), 4)
    IN  [bytes |-> <<bytes[2], bytes[3], bytes[4], 0>>, clipped |-> c.clipped]

\* to_s24_4_be with the padding byte last, as in the little-endian format
to_s24_4_be_pad_last(T, self) ==
    LET c == clamp_int(T, "i32", FMul(T, self, MAX_I32))
        bytes == to_be_bytes(CastInt(c.val, "i32"), 4)
    IN  [bytes |-> <<bytes[1], bytes[2], bytes[3], 0>>, clipped |-> c.clipped]

to_s24_4_be(T, self) ==
    LET c == clamp_int(T, "i32", FMul(T, self, MAX_I32))
        bytes == to_be_bytes(CastInt(c.val, "i32"), 4)
    IN  [bytes |-> <<0, bytes[1], bytes[2], bytes[3]>>, clipped |-> c.clipped]

\* f64: val = *self; f32: val = f64::from(*self), which is exact
to_f64_le(T, self) ==
    LET c == clamp_float(self)
    IN  [bytes |-> Reverse(F64BeBytes(c.val)), clipped |-> c.clipped]

to_f64_be(T, self) ==
    LET c == clamp_float(self)
    IN  [bytes |-> F64BeBytes(c.val), clipped |-> c.clipped]

\* f64: val = *self as f32, which rounds; f32: val = *self
to_f32_le(T, self) ==
    LET c == clamp_float(RoundTo("f32", self))
    IN  [bytes |-> Reverse(F32BeBytes(c.val)), clipped |-> c.clipped]

to_f32_be(T, self) ==
    LET c == clamp_float(RoundTo("f32", self))
    IN  [bytes |-> F32BeBytes(c.val), clipped |-> c.clipped]

\* iN::from_le_bytes: the two's complement integer of n bytes, least significant first
from_le_bytes(bytes) ==
    LET n == Len(bytes)
        RECURSIVE low(_)
        low(i) == IF i = 0 THEN 0 ELSE bytes[i] * Pow2(8 * (i - 1)) + low(i - 1)
        top == IF bytes[n] >= 128 THEN bytes[n] - 256 ELSE bytes[n]
    IN  top * Pow2(8 * (n - 1)) + low(n - 1)

from_be_bytes(bytes) == from_le_bytes(Reverse(bytes))

\* f32::from_be_bytes, for the bit patterns of finite values
F32FromBe(b) ==
    LET exp == (b[1] % 128) * 2 + b[2] \div 128
        frac == (b[2] % 128) * 65536 + b[3] * 256 + b[4]
        s == IF b[1] >= 128 THEN -1 ELSE 1
    IN  CASE exp = 0 -> Flt(s * frac, -149)
          [] exp \in 1..254 -> Flt(s * (Pow2(23) + frac), exp - 127 - 23)

\* f64::from_be_bytes, for the bit patterns of finite values whose fraction
\* lies in its leading 30 bits
F64FromBe(b) ==
    LET exp == (b[1] % 128) * 16 + b[2] \div 16
        fr == (b[2] % 16) * Pow2(26) + b[3] * Pow2(18) + b[4] * Pow2(10)
                + b[5] * 4 + b[6] \div 64
        s == IF b[1] >= 128 THEN -1 ELSE 1
    IN  CASE exp = 0 /\ fr = 0 -> Flt(0, 0)
          [] exp \in 1..2046 /\ b[6] % 64 = 0 /\ b[7] = 0 /\ b[8] = 0 ->
                Flt(s * (Pow2(30) + fr), exp - 1023 - 30)

\* f64::from(intvalue) is exact; intvalue as f32 rounds
from_s32_le(T, bytes) == FDiv(T, FromInt(T, from_le_bytes(bytes)), MAX_I32)

from_s32_be(T, bytes) == FDiv(T, FromInt(T, from_be_bytes(bytes)), MAX_I32)

from_s16_le(T, bytes) == FDiv(T, FromInt(T, from_le_bytes(bytes)), MAX_I16)

from_s16_be(T, bytes) == FDiv(T, FromInt(T, from_be_bytes(bytes)), MAX_I16)

from_s24_3_le(T, bytes) ==
    LET padded == <<0, bytes[1], bytes[2], bytes[3]>>
    IN  FDiv(T, FromInt(T, from_le_bytes(padded)), MAX_I32)

from_s24_3_be(T, bytes) ==
    LET padded == <<bytes[1], bytes[2], bytes[3], 0>>
    IN  FDiv(T, FromInt(T, from_be_bytes(padded)), MAX_I32)

from_s24_4_le(T, bytes) ==
    LET padded == <<0, bytes[1], bytes[2], bytes[3]>>
    IN  FDiv(T, FromInt(T, from_le_bytes(padded)), MAX_I32)

\* a faulty from_s24_4_be, against which the symmetry of the byte orders
\* is validated: the padding is taken to be the last byte
from_s24_4_be_pad_last(T, bytes) ==
    LET padded == <<bytes[1], bytes[2], bytes[3], 0>>
    IN  FDiv(T, FromInt(T, from_be_bytes(padded)), MAX_I32)

from_s24_4_be(T, bytes) ==
    LET padded == <<bytes[2], bytes[3], bytes[4], 0>>
    IN  FDiv(T, FromInt(T, from_be_bytes(padded)), MAX_I32)

from_f32_le(T, bytes) == F32FromBe(Reverse(bytes))

from_f32_be(T, bytes) == F32FromBe(bytes)

\* f64: the value as it is; f32: f64::from_le_bytes(bytes) as f32, which rounds
from_f64_le(T, bytes) == RoundTo(T, F64FromBe(Reverse(bytes)))

from_f64_be(T, bytes) == RoundTo(T, F64FromBe(bytes))

\* the sample types the codec is implemented for
SampleTypes == {"f32", "f64"}

\* The supported sample formats.
SampleFormat ==
    {"S16LE", "S16BE", "S24LE3", "S24BE3", "S24LE4", "S24BE4",
     "S32LE", "S32BE", "F32LE", "F32BE", "F64LE", "F64BE"}

IntFormats == {"S16LE", "S16BE", "S24LE3", "S24BE3", "S24LE4", "S24BE4", "S32LE", "S32BE"}

FloatFormats == SampleFormat \ IntFormats

bytes_per_sample(sformat) ==
    CASE sformat \in {"S16LE", "S16BE"} -> 2
      [] sformat \in {"S24LE3", "S24BE3"} -> 3
      [] sformat \in {"S24LE4", "S24BE4", "S32LE", "S32BE", "F32LE", "F32BE"} -> 4
      [] sformat \in {"F64LE", "F64BE"} -> 8

\* the conversion a format selects when a sample is written (write_samples!)
Encode(T, sformat, value) ==
    CASE sformat = "S16LE" -> to_s16_le(T, value)
      [] sformat = "S16BE" -> to_s16_be(T, value)
      [] sformat = "S24LE3" -> to_s24_3_le(T, value)
      [] sformat = "S24BE3" -> to_s24_3_be(T, value)
      [] sformat = "S24LE4" -> to_s24_4_le(T, value)
      [] sformat = "S24BE4" -> to_s24_4_be(T, value)
      [] sformat = "S32LE" -> to_s32_le(T, value)
      [] sformat = "S32BE" -> to_s32_be(T, value)
      [] sformat = "F32LE" -> to_f32_le(T, value)
      [] sformat = "F32BE" -> to_f32_be(T, value)
      [] sformat = "F64LE" -> to_f64_le(T, value)
      [] sformat = "F64BE" -> to_f64_be(T, value)

\* the conversion a format selects when a sample is read (read_samples_to_slice!)
Decode(T, sformat, bytes) ==
    CASE sformat = "S16LE" -> from_s16_le(T, bytes)
      [] sformat = "S16BE" -> from_s16_be(T, bytes)
      [] sformat = "S24LE3" -> from_s24_3_le(T, bytes)
      [] sformat = "S24BE3" -> from_s24_3_be(T, bytes)
      [] sformat = "S24LE4" -> from_s24_4_le(T, bytes)
      [] sformat = "S24BE4" -> from_s24_4_be(T, bytes)
      [] sformat = "S32LE" -> from_s32_le(T, bytes)
      [] sformat = "S32BE" -> from_s32_be(T, bytes)
      [] sformat = "F32LE" -> from_f32_le(T, bytes)
      [] sformat = "F32BE" -> from_f32_be(T, bytes)
      [] sformat = "F64LE" -> from_f64_le(T, bytes)
      [] sformat = "F64BE" -> from_f64_be(T, bytes)

(***************************************************************************)
(* The buffer wrappers (audioboiler_buffers) and the traits they implement *)
(* (audioboiler_traits).                                                   *)
(***************************************************************************)
\* usize arithmetic: the pointer width, here that of the narrowest target
\* the language supports
UsizeBits == 16

\* a usize product or sum as a build without overflow checks computes it
USize(n) == n % Pow2(UsizeBits)

Overflows(n) == n >= Pow2(UsizeBits)

None == [some |-> FALSE]

Some(x) == [some |-> TRUE, val |-> x]

Ok(x) == [ok |-> TRUE, val |-> x]

Err(e) == [ok |-> FALSE, err |-> e]

\* a call that did not return: an arithmetic overflow in a build with
\* overflow checks, or a slice index out of range
Panic == [panic |-> TRUE]

\* format!("... {} < {}", actual, required): the text and the numbers it carries
BufferSizeError(text, idx, actual, required) ==
    [desc |-> text, idx |-> idx, actual |-> actual, required |-> required]

TypedFlatKinds == {"InterleavedSlice", "SequentialSlice"}

TypedVecKinds == {"SequentialSliceOfVecs", "InterleavedSliceOfVecs"}

TypedKinds == TypedFlatKinds \cup TypedVecKinds

ByteKinds == {"InterleavedBytes", "SequentialBytes"}

NoWrapper == [kind |-> "none"]

\* direct.rs check_slice_length!(channels, frames, length)
check_slice_length(channels, frames, length) ==
    IF length < USize(frames * channels)
    THEN Err(BufferSizeError("Slice is too short", 0, length, USize(frames * channels)))
    ELSE Ok(TRUE)

\* converting.rs check_slice_length!(channels, frames, length, elements_per_sample)
check_slice_length_bytes(channels, frames, length, elements_per_sample) ==
    LET required == USize(USize(frames * channels) * elements_per_sample)
    IN  IF length < required
        THEN Err(BufferSizeError("Slice is too short", 0, length, required))
        ELSE Ok(TRUE)

\* the first entry of storage, in order, that is shorter than needed; 0 if none
RECURSIVE FirstShort(_, _, _)
FirstShort(storage, needed, idx) ==
    IF idx > Len(storage) THEN 0
    ELSE IF Len(storage[idx]) < needed THEN idx
    ELSE FirstShort(storage, needed, idx + 1)

\* check_slice_and_vec_length!(storage, channels, frames, sequential | interleaved):
\* the loop runs over every entry of storage
check_slice_and_vec_length(storage, channels, frames, order) ==
    LET outer == IF order = "sequential" THEN channels ELSE frames
        inner == IF order = "sequential" THEN frames ELSE channels
        short == FirstShort(storage, inner, 1)
    IN  IF Len(storage) < outer
        THEN Err(BufferSizeError(
                IF order = "sequential" THEN "Too few channels" ELSE "Too few frames",
                0, Len(storage), outer))
        ELSE IF short # 0
        THEN Err(BufferSizeError(
                IF order = "sequential" THEN "Channel is too short" ELSE "Frame is too short",
                short - 1, Len(storage[short]), inner))
        ELSE Ok(TRUE)

\* new and new_mut of the typed wrappers
new(kind, mutable, storage, channels, frames) ==
    LET check ==
            CASE kind \in TypedFlatKinds -> check_slice_length(channels, frames, Len(storage))
              [] kind = "SequentialSliceOfVecs" ->
                    check_slice_and_vec_length(storage, channels, frames, "sequential")
              [] kind = "InterleavedSliceOfVecs" ->
                    check_slice_and_vec_length(storage, channels, frames, "interleaved")
    IN  IF check.ok
        THEN Ok([kind |-> kind, mutable |-> mutable, frames |-> frames, channels |-> channels])
        ELSE check

\* new and new_mut of the byte wrappers of one format, for samples of type T
new_bytes(kind, sformat, T, mutable, storage, channels, frames) ==
    LET check == check_slice_length_bytes(channels, frames, Len(storage),
                                          bytes_per_sample(sformat))
    IN  IF check.ok
        THEN Ok([kind |-> kind, fmt |-> sformat, T |-> T, mutable |-> mutable,
                 frames |-> frames, channels |-> channels,
                 bytes_per_sample |-> bytes_per_sample(sformat)])
        ELSE check

\* whether the size check of a construction overflows usize
NewOverflows(kind, sformat, channels, frames) ==
    CASE kind \in TypedFlatKinds -> Overflows(frames * channels)
      [] kind \in ByteKinds ->
            \/ Overflows(frames * channels)
            \/ Overflows(USize(frames * channels) * bytes_per_sample(sformat))
      [] OTHER -> FALSE

\* a faulty calc_index, against which the layout properties are validated:
\* both flat orders use the sequential offset
calc_index_one_order(w, channel, frame) ==
    CASE w.kind \in {"InterleavedSlice", "SequentialSlice"} ->
            USize(USize(channel * w.frames) + frame)
      [] w.kind \in {"InterleavedBytes", "SequentialBytes"} ->
            USize(w.bytes_per_sample * USize(frame + USize(channel * w.frames)))

\* calc_index of the flat wrappers: the offset of a sample in the storage
\* calc_index with the formulas of the two byte layouts exchanged
calc_index_bytes_exchanged(w, channel, frame) ==
    CASE w.kind = "InterleavedSlice" -> USize(USize(frame * w.channels) + channel)
      [] w.kind = "SequentialSlice" -> USize(USize(channel * w.frames) + frame)
      [] w.kind = "InterleavedBytes" ->
            USize(w.bytes_per_sample * USize(frame + USize(channel * w.frames)))
      [] w.kind = "SequentialBytes" ->
            USize(w.bytes_per_sample * USize(USize(frame * w.channels) + channel))

calc_index(w, channel, frame) ==
    CASE w.kind = "InterleavedSlice" -> USize(USize(frame * w.channels) + channel)
      [] w.kind = "SequentialSlice" -> USize(USize(channel * w.frames) + frame)
      [] w.kind = "InterleavedBytes" ->
            USize(w.bytes_per_sample * USize(USize(frame * w.channels) + channel))
      [] w.kind = "SequentialBytes" ->
            USize(w.bytes_per_sample * USize(frame + USize(channel * w.frames)))

\* a reference to a stored sample, and the outcome of an unchecked access
\* that lands outside the storage
Ref(v) == [val |-> v]

Dangling == [dangling |-> TRUE]

\* the storage slot an access addresses: an offset of a flat storage, an
\* outer and an inner index of a vector of vectors
InStorage(b, place) ==
    IF Len(place) = 1 THEN place[1] < Len(b)
    ELSE place[1] < Len(b) /\ place[2] < Len(b[place[1] + 1])

Deref(b, place) ==
    IF ~InStorage(b, place) THEN Dangling
    ELSE IF Len(place) = 1 THEN Ref(b[place[1] + 1])
    ELSE Ref(b[place[1] + 1][place[2] + 1])

\* *place = value
Assign(b, place, value) ==
    IF ~InStorage(b, place) THEN b
    ELSE IF Len(place) = 1 THEN [b EXCEPT ![place[1] + 1] = value]
    ELSE [b EXCEPT ![place[1] + 1][place[2] + 1] = value]

get_unchecked(w, b, channel, frame) ==
    CASE w.kind \in TypedFlatKinds -> Deref(b, <<calc_index(w, channel, frame)>>)
      [] w.kind = "SequentialSliceOfVecs" -> Deref(b, <<channel, frame>>)
      [] w.kind = "InterleavedSliceOfVecs" -> Deref(b, <<frame, channel>>)

\* a faulty get, against which the bounds properties are validated: the
\* one-past-the-end channel passes the guard
get_off_by_one(w, b, channel, frame) ==
    IF channel > w.channels \/ frame >= w.frames
    THEN None
    ELSE Some(get_unchecked(w, b, channel, frame))

get(w, b, channel, frame) ==
    IF channel >= w.channels \/ frame >= w.frames
    THEN None
    ELSE Some(get_unchecked(w, b, channel, frame))

\* a faulty get_unchecked_mut, against which the write properties are
\* validated: the channels of a frame share one slot
get_unchecked_mut_shared(w, channel, frame) ==
    CASE w.kind \in TypedFlatKinds -> <<calc_index(w, 0, frame)>>
      [] w.kind = "SequentialSliceOfVecs" -> <<0, frame>>
      [] w.kind = "InterleavedSliceOfVecs" -> <<frame, 0>>

\* the &mut T handed out is modelled by the slot it points to
get_unchecked_mut(w, channel, frame) ==
    CASE w.kind \in TypedFlatKinds -> <<calc_index(w, channel, frame)>>
      [] w.kind = "SequentialSliceOfVecs" -> <<channel, frame>>
      [] w.kind = "InterleavedSliceOfVecs" -> <<frame, channel>>

get_mut(w, channel, frame) ==
    IF channel >= w.channels \/ frame >= w.frames
    THEN None
    ELSE Some(get_unchecked_mut(w, channel, frame))

\* self.buf[index..index + bytes_per_sample] converted with the format's
\* from_ function; the range index panics outside the storage
read_unchecked(w, b, channel, frame) ==
    LET index == calc_index(w, channel, frame)
    IN  IF index + w.bytes_per_sample > Len(b) THEN Panic
        ELSE Decode(w.T, w.fmt, SubSeq(b, index + 1, index + w.bytes_per_sample))

read(w, b, channel, frame) ==
    IF channel >= w.channels \/ frame >= w.frames
    THEN None
    ELSE LET value == read_unchecked(w, b, channel, frame)
         IN  IF value = Panic THEN Panic ELSE Some(value)

\* write_unchecked returning whether the value fitted, the flag inverted
write_unchecked_inverted_flag(w, b, channel, frame, value) ==
    LET index == calc_index(w, channel, frame)
        enc == Encode(w.T, w.fmt, value)
    IN  IF index + w.bytes_per_sample > Len(b) THEN Panic
        ELSE [buf |-> [i \in 1..Len(b) |->
                        IF i > index /\ i <= index + w.bytes_per_sample
                        THEN enc.bytes[i - index] ELSE b[i]],
              ret |-> ~enc.clipped]

\* the storage after the write and the clipped flag
write_unchecked(w, b, channel, frame, value) ==
    LET index == calc_index(w, channel, frame)
        enc == Encode(w.T, w.fmt, value)
    IN  IF index + w.bytes_per_sample > Len(b) THEN Panic
        ELSE [buf |-> [i \in 1..Len(b) |->
                        IF i > index /\ i <= index + w.bytes_per_sample
                        THEN enc.bytes[i - index] ELSE b[i]],
              ret |-> enc.clipped]

write(w, b, channel, frame, value) ==
    IF channel >= w.channels \/ frame >= w.frames
    THEN [buf |-> b, ret |-> None]
    ELSE LET done == write_unchecked(w, b, channel, frame, value)
         IN  IF done = Panic THEN Panic ELSE [buf |-> done.buf, ret |-> Some(done.ret)]

(***************************************************************************)
(* The bulk transfers between a channel or a frame and a slice of the      *)
(* caller.                                                                 *)
(***************************************************************************)
\* a call with undefined behaviour: it went through a dangling reference
Undefined == [undefined |-> TRUE]

\* a faulty count, against which the extraction properties are validated:
\* the start offset is not taken off the extent
to_copy_from_zero(extent, start, length) == IF extent < length THEN extent ELSE length

\* frames_to_write, channels_to_write, frames_to_read, channels_to_read
to_copy(extent, start, length) ==
    IF (extent - start) < length THEN extent - start ELSE length

\* a faulty range copy, against which the equivalence of the range copies
\* and the loops of the traits is validated: it fills the slice backwards
CopyOutReversed(slice, src, from, n) ==
    IF from + n > Len(src) THEN Panic
    ELSE [ret |-> n,
          slice |-> [i \in 1..Len(slice) |-> IF i <= n THEN src[from + n + 1 - i] ELSE slice[i]]]

\* slice[..n].clone_from_slice(&src[from..from + n])
CopyOut(slice, src, from, n) ==
    IF from + n > Len(src) THEN Panic
    ELSE [ret |-> n,
          slice |-> [i \in 1..Len(slice) |-> IF i <= n THEN src[from + i] ELSE slice[i]]]

\* a faulty range copy, against which the injection properties are
\* validated: it also overwrites the slot after the range
CopyInOneMore(dst, from, n, slice) ==
    IF from + n > Len(dst) THEN Panic
    ELSE [buf |-> [i \in 1..Len(dst) |->
                    IF i > from /\ i <= from + n THEN slice[i - from]
                    ELSE IF n > 0 /\ i = from + n + 1 THEN slice[n]
                    ELSE dst[i]]]

\* dst[from..from + n].clone_from_slice(&slice[..n]): the storage after it
CopyIn(dst, from, n, slice) ==
    IF from + n > Len(dst) THEN Panic
    ELSE [buf |-> [i \in 1..Len(dst) |->
                    IF i > from /\ i <= from + n THEN slice[i - from] ELSE dst[i]]]

\* the loops of the default methods: item n of the slice and the sample n
\* places after start in the channel (along = "channel") or in the frame
SampleAt(w, b, along, index, pos) ==
    IF along = "channel"
    THEN (IF w.kind \in ByteKinds THEN read_unchecked(w, b, index, pos)
          ELSE get_unchecked(w, b, index, pos))
    ELSE (IF w.kind \in ByteKinds THEN read_unchecked(w, b, pos, index)
          ELSE get_unchecked(w, b, pos, index))

LoopOut(w, b, along, index, start, slice, n) ==
    LET item == [i \in 1..n |-> SampleAt(w, b, along, index, start + i - 1)]
    IN  IF \E i \in 1..n : item[i] = Panic THEN Panic
        ELSE IF \E i \in 1..n : item[i] = Dangling THEN Undefined
        ELSE [ret |-> n,
              slice |-> [i \in 1..Len(slice) |->
                            IF i > n THEN slice[i]
                            ELSE IF w.kind \in ByteKinds THEN item[i] ELSE item[i].val]]

RECURSIVE LoopIn(_, _, _, _, _, _, _)
LoopIn(w, b, along, index, start, slice, n) ==
    IF n = 0 THEN [buf |-> b]
    ELSE LET before == LoopIn(w, b, along, index, start, slice, n - 1)
             place == IF along = "channel"
                      THEN get_unchecked_mut(w, index, start + n - 1)
                      ELSE get_unchecked_mut(w, start + n - 1, index)
         IN  IF before = Undefined \/ ~InStorage(b, place) THEN Undefined
             ELSE [buf |-> Assign(before.buf, place, slice[n])]

\* AudioBuffer::write_from_channel_to_slice and
\* Converter::write_from_channel_to_slice as the traits provide them
default_write_from_channel_to_slice(w, b, channel, start, slice) ==
    IF channel >= w.channels \/ start >= w.frames
    THEN [ret |-> 0, slice |-> slice]
    ELSE LoopOut(w, b, "channel", channel, start, slice,
                 to_copy(w.frames, start, Len(slice)))

default_write_from_frame_to_slice(w, b, frame, start, slice) ==
    IF frame >= w.frames \/ start >= w.channels
    THEN [ret |-> 0, slice |-> slice]
    ELSE LoopOut(w, b, "frame", frame, start, slice,
                 to_copy(w.channels, start, Len(slice)))

\* write_from_channel_to_slice of each wrapper: SequentialSlice and
\* SequentialSliceOfVecs copy a range of the storage, the others keep the
\* method of the trait
write_from_channel_to_slice(w, b, channel, start, slice) ==
    CASE w.kind = "SequentialSlice" ->
            IF channel >= w.channels \/ start >= w.frames
            THEN [ret |-> 0, slice |-> slice]
            ELSE CopyOut(slice, b, calc_index(w, channel, start),
                         to_copy(w.frames, start, Len(slice)))
      [] w.kind = "SequentialSliceOfVecs" ->
            IF channel >= w.channels \/ start >= w.frames
            THEN [ret |-> 0, slice |-> slice]
            ELSE CopyOut(slice, b[channel + 1], start, to_copy(w.frames, start, Len(slice)))
      [] OTHER -> default_write_from_channel_to_slice(w, b, channel, start, slice)

\* write_from_frame_to_slice of each wrapper: InterleavedSlice and
\* InterleavedSliceOfVecs copy a range of the storage
write_from_frame_to_slice(w, b, frame, start, slice) ==
    CASE w.kind = "InterleavedSlice" ->
            IF frame >= w.frames \/ start >= w.channels
            THEN [ret |-> 0, slice |-> slice]
            ELSE CopyOut(slice, b, calc_index(w, start, frame),
                         to_copy(w.channels, start, Len(slice)))
      [] w.kind = "InterleavedSliceOfVecs" ->
            IF frame >= w.frames \/ start >= w.channels
            THEN [ret |-> 0, slice |-> slice]
            ELSE CopyOut(slice, b[frame + 1], start, to_copy(w.channels, start, Len(slice)))
      [] OTHER -> default_write_from_frame_to_slice(w, b, frame, start, slice)

\* the count an injection returns, with the storage it leaves
Injected(done, n) ==
    IF done = Undefined \/ done = Panic THEN done ELSE [ret |-> n, buf |-> done.buf]

\* AudioBufferMut::read_into_channel_from_slice as the trait provides it
default_read_into_channel_from_slice(w, b, channel, start, slice) ==
    IF channel >= w.channels \/ start >= w.frames
    THEN [ret |-> 0, buf |-> b]
    ELSE LET n == to_copy(w.frames, start, Len(slice))
         IN  Injected(LoopIn(w, b, "channel", channel, start, slice, n), n)

default_read_into_frame_from_slice(w, b, frame, start, slice) ==
    IF frame >= w.frames \/ start >= w.channels
    THEN [ret |-> 0, buf |-> b]
    ELSE LET n == to_copy(w.channels, start, Len(slice))
         IN  Injected(LoopIn(w, b, "frame", frame, start, slice, n), n)

\* read_into_channel_from_slice of each wrapper
read_into_channel_from_slice(w, b, channel, start, slice) ==
    CASE w.kind = "SequentialSlice" ->
            IF channel >= w.channels \/ start >= w.frames
            THEN [ret |-> 0, buf |-> b]
            ELSE LET n == to_copy(w.frames, start, Len(slice))
                 IN  Injected(CopyIn(b, calc_index(w, channel, start), n, slice), n)
      [] w.kind = "SequentialSliceOfVecs" ->
            IF channel >= w.channels \/ start >= w.frames
            THEN [ret |-> 0, buf |-> b]
            ELSE LET n == to_copy(w.frames, start, Len(slice))
                     chan == CopyIn(b[channel + 1], start, n, slice)
                 IN  Injected(IF chan = Panic THEN Panic
                              ELSE [buf |-> [b EXCEPT ![channel + 1] = chan.buf]], n)
      [] OTHER -> default_read_into_channel_from_slice(w, b, channel, start, slice)

\* read_into_frame_from_slice of each wrapper
read_into_frame_from_slice(w, b, frame, start, slice) ==
    CASE w.kind = "InterleavedSlice" ->
            IF frame >= w.frames \/ start >= w.channels
            THEN [ret |-> 0, buf |-> b]
            ELSE LET n == to_copy(w.channels, start, Len(slice))
                 IN  Injected(CopyIn(b, calc_index(w, start, frame), n, slice), n)
      [] w.kind = "InterleavedSliceOfVecs" ->
            IF frame >= w.frames \/ start >= w.channels
            THEN [ret |-> 0, buf |-> b]
            ELSE LET n == to_copy(w.channels, start, Len(slice))
                     fr == CopyIn(b[frame + 1], start, n, slice)
                 IN  Injected(IF fr = Panic THEN Panic
                              ELSE [buf |-> [b EXCEPT ![frame + 1] = fr.buf]], n)
      [] OTHER -> default_read_into_frame_from_slice(w, b, frame, start, slice)

(***************************************************************************)
(* The sessions of a caller of the buffer wrappers.  A session constructs  *)
(* a wrapper over some storage, makes at most MaxWrites writes through it  *)
(* and ends with one observation.  An observation takes &self and leaves   *)
(* the wrapper and its storage as they are, so it is the last call of its  *)
(* behaviour: whatever a later call could see, it can see from the state   *)
(* the observation was made in.                                            *)
(***************************************************************************)
\* the storage contents before any write: distinct values in distinct slots
FlatStorage(n) == [i \in 1..n |-> 100 + (i - 1)]

VecStorage(lens) == [o \in 1..Len(lens) |-> [i \in 1..lens[o] |-> 100 + 10 * (o - 1) + (i - 1)]]

\* the sample the j-th slot of a byte storage holds before any write
InitSample(j) ==
    CASE j = 0 -> Flt(0, 0)
      [] j = 1 -> Flt(-1, 0)
      [] j = 2 -> Flt(1, -1)
      [] j = 3 -> Flt(-1, -1)
      [] j = 4 -> Flt(1, -2)
      [] j = 5 -> Flt(-1, -2)
      [] OTHER -> Flt(2 * j + 1, -5)

ByteStorage(T, sformat, samples, extra) ==
    LET n == bytes_per_sample(sformat)
        enc == [j \in 0..(samples - 1) |-> Encode(T, sformat, InitSample(j)).bytes]
    IN  [i \in 1..(samples * n + extra) |->
            IF i <= samples * n THEN enc[(i - 1) \div n][((i - 1) % n) + 1] ELSE 0]

\* the values written through get_mut and the bulk injections
SampleValues == 1..MaxSample

Coords(w) == (0..(w.channels - 1)) \X (0..(w.frames - 1))

\* what each coordinate of the wrapper holds
Snapshot(w, b) ==
    [p \in Coords(w) |->
        IF w.kind \in TypedKinds THEN get(w, b, p[1], p[2]).val.val
        ELSE read(w, b, p[1], p[2]).val]

\* storages a wrapper of the given extents can be constructed over: one of
\* exactly the size needed and one with room to spare
TypedStorages(kind, channels, frames) ==
    CASE kind \in TypedFlatKinds ->
            {FlatStorage(channels * frames), FlatStorage(channels * frames + 1)}
      [] kind = "SequentialSliceOfVecs" ->
            {VecStorage([o \in 1..channels |-> frames]),
             VecStorage([o \in 1..(channels + 1) |-> frames + 1])}
      [] kind = "InterleavedSliceOfVecs" ->
            {VecStorage([o \in 1..frames |-> channels]),
             VecStorage([o \in 1..(frames + 1) |-> channels + 1])}

CodecIdle == [op |-> "none"]

\* no iterator has been made of the wrapper
NoIter == [type |-> "none"]

NoIters ==
    [made |-> 0, outer |-> NoIter, inner |-> NoIter, calls |-> 0, held |-> <<>>,
     visited |-> <<>>, produced |-> <<>>, complete |-> TRUE, start |-> <<>>]

\* a call of new or new_mut and what it returned
NewCall(mutable, kind, sformat, T, channels, frames, state, ret) ==
    [op |-> IF mutable THEN "new_mut" ELSE "new", state |-> state, kind |-> kind,
     fmt |-> sformat, T |-> T, channels |-> channels, frames |-> frames, ret |-> ret]

\* the state a successful construction leaves
Constructed(w, b, sformat, T) ==
    /\ wrapper = w
    /\ buf = b
    /\ call = NewCall(w.mutable, w.kind, sformat, T, w.channels, w.frames, "returned", Ok(w))
    /\ logical = Snapshot(w, b)
    /\ nwrites = 0
    /\ iters = NoIters
    /\ conv = CodecIdle

TypedInit ==
    \E kind \in TypedKinds, mutable \in BOOLEAN,
       channels \in 0..MaxChannels, frames \in 0..MaxFrames :
        \E b \in TypedStorages(kind, channels, frames) :
            LET r == new(kind, mutable, b, channels, frames)
            IN  /\ r.ok
                /\ Constructed(r.val, b, "none", "none")

Observations ==
    {"get", "read", "write_from_channel_to_slice", "write_from_frame_to_slice"}

Ready == wrapper # NoWrapper /\ call.state = "returned" /\ call.op \notin Observations

\* AudioBuffer::get
Get ==
    /\ Ready
    /\ wrapper.kind \in TypedKinds
    /\ \E channel \in 0..wrapper.channels, frame \in 0..wrapper.frames :
          call' = [op |-> "get", state |-> "returned", channel |-> channel,
                   frame |-> frame, ret |-> get(wrapper, buf, channel, frame)]
    /\ UNCHANGED <<wrapper, buf, logical, nwrites, conv, iters>>

\* AudioBufferMut::get_mut and the caller's store through the reference
GetMut ==
    /\ Ready
    /\ wrapper.kind \in TypedKinds
    /\ wrapper.mutable
    /\ nwrites < MaxWrites
    /\ \E channel \in 0..wrapper.channels, frame \in 0..wrapper.frames,
          value \in SampleValues :
          LET r == get_mut(wrapper, channel, frame)
          IN  /\ call' = [op |-> "get_mut", state |-> "returned", channel |-> channel,
                          frame |-> frame, value |-> value, ret |-> r]
              /\ buf' = IF r.some THEN Assign(buf, r.val, value) ELSE buf
              /\ logical' = IF <<channel, frame>> \in Coords(wrapper)
                            THEN [logical EXCEPT ![<<channel, frame>>] = value]
                            ELSE logical
    /\ nwrites' = nwrites + 1
    /\ UNCHANGED <<wrapper, conv, iters>>

\* the samples written through write: one inside the range of every format
\* and one above it
ByteValues == {Flt(1, -1), Flt(MaxEighths, -3)}

\* what a byte wrapper holds at a coordinate after value was written to it
Stored(w, value) == Decode(w.T, w.fmt, Encode(w.T, w.fmt, value).bytes)

ByteStorages(sformat, T, channels, frames) ==
    {ByteStorage(T, sformat, channels * frames, 0),
     ByteStorage(T, sformat, channels * frames, 1)}

ByteInit ==
    \E kind \in ByteKinds, sformat \in SampleFormat, T \in SampleTypes,
       mutable \in BOOLEAN, channels \in 0..MaxChannels, frames \in 0..MaxFrames :
        \E b \in ByteStorages(sformat, T, channels, frames) :
            LET r == new_bytes(kind, sformat, T, mutable, b, channels, frames)
            IN  /\ r.ok
                /\ Constructed(r.val, b, sformat, T)

\* Converter::read
Read ==
    /\ Ready
    /\ wrapper.kind \in ByteKinds
    /\ \E channel \in 0..wrapper.channels, frame \in 0..wrapper.frames :
          call' = [op |-> "read", state |-> "returned", channel |-> channel,
                   frame |-> frame, ret |-> read(wrapper, buf, channel, frame)]
    /\ UNCHANGED <<wrapper, buf, logical, nwrites, conv, iters>>

\* ConverterMut::write
Write ==
    /\ Ready
    /\ wrapper.kind \in ByteKinds
    /\ wrapper.mutable
    /\ nwrites < MaxByteWrites
    /\ \E channel \in 0..wrapper.channels, frame \in 0..wrapper.frames,
          value \in ByteValues :
          \E r \in {write(wrapper, buf, channel, frame, value)} :
              /\ call' = [op |-> "write", state |-> "returned", channel |-> channel,
                          frame |-> frame, value |-> value,
                          ret |-> IF r = Panic THEN Panic ELSE r.ret]
              /\ buf' = IF r = Panic THEN buf ELSE r.buf
              /\ logical' = IF <<channel, frame>> \in Coords(wrapper)
                            THEN [logical EXCEPT ![<<channel, frame>>] = Stored(wrapper, value)]
                            ELSE logical
    /\ nwrites' = nwrites + 1
    /\ UNCHANGED <<wrapper, conv, iters>>

\* the sessions of single sample accesses
Init == TypedInit \/ ByteInit

Next == Get \/ GetMut \/ Read \/ Write

Spec == Init /\ [][Next]_vars


(***************************************************************************)
(* The sessions of bulk extraction: one call of write_from_channel_to_slice *)
(* or write_from_frame_to_slice on a constructed wrapper.                  *)
(***************************************************************************)
\* the slice the caller hands in, holding values no wrapper holds
OutSlice(w, length) ==
    [i \in 1..length |-> IF w.kind \in ByteKinds THEN Flt(2 * i + 1, 3) ELSE 900 + i]

WriteFromChannelToSlice ==
    /\ Ready
    /\ \E channel \in 0..wrapper.channels, start \in 0..wrapper.frames,
          length \in 0..MaxSlice :
          LET slice == OutSlice(wrapper, length)
          IN  call' = [op |-> "write_from_channel_to_slice", state |-> "returned",
                       index |-> channel, start |-> start, slice |-> slice,
                       ret |-> write_from_channel_to_slice(wrapper, buf, channel, start, slice)]
    /\ UNCHANGED <<wrapper, buf, logical, nwrites, conv, iters>>

WriteFromFrameToSlice ==
    /\ Ready
    /\ \E frame \in 0..wrapper.frames, start \in 0..wrapper.channels,
          length \in 0..MaxSlice :
          LET slice == OutSlice(wrapper, length)
          IN  call' = [op |-> "write_from_frame_to_slice", state |-> "returned",
                       index |-> frame, start |-> start, slice |-> slice,
                       ret |-> write_from_frame_to_slice(wrapper, buf, frame, start, slice)]
    /\ UNCHANGED <<wrapper, buf, logical, nwrites, conv, iters>>

ExtractNext == WriteFromChannelToSlice \/ WriteFromFrameToSlice

SpecExtract == Init /\ [][ExtractNext]_vars

(***************************************************************************)
(* The sessions of bulk injection: at most MaxWrites calls of              *)
(* read_into_channel_from_slice or read_into_frame_from_slice on a mutable *)
(* typed wrapper.                                                          *)
(***************************************************************************)
\* the slices the caller hands in
InSlice(length, value) == [i \in 1..length |-> 10 * value + i]

Min(a, b) == IF a < b THEN a ELSE b

\* what each coordinate holds after the first n items of slice are stored in
\* the channel (along = "channel") or the frame index, from start on
Stores(w, L, along, index, start, slice, n) ==
    [p \in Coords(w) |->
        LET here == IF along = "channel" THEN p[1] ELSE p[2]
            pos == IF along = "channel" THEN p[2] ELSE p[1]
        IN  IF here = index /\ pos >= start /\ pos < start + n
            THEN slice[pos - start + 1] ELSE L[p]]

Injection(op, along) ==
    /\ Ready
    /\ wrapper.kind \in TypedKinds
    /\ wrapper.mutable
    /\ nwrites < MaxWrites
    /\ LET count == IF along = "channel" THEN wrapper.channels ELSE wrapper.frames
           extent == IF along = "channel" THEN wrapper.frames ELSE wrapper.channels
       IN  \E index \in 0..count, start \in 0..extent, length \in 0..MaxSlice,
              value \in SampleValues :
              LET slice == InSlice(length, value)
                  r == IF along = "channel"
                       THEN read_into_channel_from_slice(wrapper, buf, index, start, slice)
                       ELSE read_into_frame_from_slice(wrapper, buf, index, start, slice)
                  failed == r = Panic \/ r = Undefined
              IN  /\ call' = [op |-> op, state |-> "returned", index |-> index,
                              start |-> start, slice |-> slice,
                              ret |-> IF failed THEN r ELSE [ret |-> r.ret]]
                  /\ buf' = IF failed THEN buf ELSE r.buf
                  /\ logical' = IF index < count /\ start < extent
                                THEN Stores(wrapper, logical, along, index, start, slice,
                                            Min(extent - start, length))
                                ELSE logical
    /\ nwrites' = nwrites + 1
    /\ UNCHANGED <<wrapper, conv, iters>>

ReadIntoChannelFromSlice == Injection("read_into_channel_from_slice", "channel")

ReadIntoFrameFromSlice == Injection("read_into_frame_from_slice", "frame")

InjectInit == TypedInit /\ wrapper.mutable

InjectNext == ReadIntoChannelFromSlice \/ ReadIntoFrameFromSlice

SpecInject == InjectInit /\ [][InjectNext]_vars

\* the extent along which a bulk call runs and the number of runs
RunExtent(c) ==
    IF c.op \in {"write_from_channel_to_slice", "read_into_channel_from_slice"}
    THEN wrapper.frames ELSE wrapper.channels

RunCount(c) ==
    IF c.op \in {"write_from_channel_to_slice", "read_into_channel_from_slice"}
    THEN wrapper.channels ELSE wrapper.frames

\* the coordinate of position pos of the run the call addresses
RunCoord(c, pos) ==
    IF c.op \in {"write_from_channel_to_slice", "read_into_channel_from_slice"}
    THEN <<c.index, pos>> ELSE <<pos, c.index>>

\* C6: a bulk extraction with the index out of range or start at or beyond
\* the extent returns 0 and leaves the output as it was; otherwise it
\* returns n = min(extent - start, length of the output), output[i] is the
\* sample at position start + i of the run for i < n, and the rest of the
\* output is as it was.
C6_BulkExtraction ==
    call.op \in {"write_from_channel_to_slice", "write_from_frame_to_slice"} =>
        /\ call.ret # Panic
        /\ call.ret # Undefined
        /\ IF call.index >= RunCount(call) \/ call.start >= RunExtent(call)
           THEN call.ret = [ret |-> 0, slice |-> call.slice]
           ELSE LET n == Min(RunExtent(call) - call.start, Len(call.slice))
                IN  /\ call.ret.ret = n
                    /\ Len(call.ret.slice) = Len(call.slice)
                    /\ \A i \in 0..(Len(call.slice) - 1) :
                          call.ret.slice[i + 1] =
                              IF i < n THEN logical[RunCoord(call, call.start + i)]
                              ELSE call.slice[i + 1]

C6_Witness ==
    /\ call.op = "write_from_channel_to_slice"
    /\ wrapper.kind = "SequentialSlice"
    /\ wrapper.channels = MaxChannels
    /\ wrapper.frames = MaxFrames
    /\ call.index = 1
    /\ call.start = wrapper.frames - 1
    /\ Len(call.slice) = 2
    /\ call.ret.ret = 1
    /\ call.ret.slice[1] = logical[<<1, wrapper.frames - 1>>]
    /\ call.ret.slice[2] = call.slice[2]

\* C7: a bulk injection with the index out of range or start at or beyond
\* the extent returns 0 and changes nothing; otherwise it returns n =
\* min(extent - start, length of the input), stores input[i] at position
\* start + i of the run for i < n, and every other coordinate holds what it
\* held before.
C7_BulkInjection ==
    call.op \in {"read_into_channel_from_slice", "read_into_frame_from_slice"} =>
        /\ call.ret = [ret |-> IF call.index >= RunCount(call) \/ call.start >= RunExtent(call)
                                THEN 0
                                ELSE Min(RunExtent(call) - call.start, Len(call.slice))]
        /\ \A p \in Coords(wrapper) :
              get(wrapper, buf, p[1], p[2]) = Some(Ref(logical[p]))

C7_Witness ==
    /\ call.op = "read_into_frame_from_slice"
    /\ wrapper.kind = "InterleavedSlice"
    /\ wrapper.channels = MaxChannels
    /\ wrapper.frames = MaxFrames
    /\ call.index = 1
    /\ call.start = 1
    /\ Len(call.slice) = 2
    /\ call.ret = [ret |-> 1]
    /\ get(wrapper, buf, 1, 1) = Some(Ref(call.slice[1]))
    /\ get(wrapper, buf, 0, 1) # Some(Ref(call.slice[1]))
    /\ get(wrapper, buf, 0, 2) # Some(Ref(call.slice[2]))

(***************************************************************************)
(* Properties of the single sample accesses.                               *)
(***************************************************************************)
InRange(w, channel, frame) == channel < w.channels /\ frame < w.frames

\* C1: get, get_mut, read and write return None exactly when channel >=
\* channels or frame >= frames; for a coordinate inside the extents they
\* return a present result that refers to a slot inside the storage.
C1_CheckedAccess ==
    call.op \in {"get", "get_mut", "read", "write"} =>
        /\ (call.ret = None) <=> (call.channel >= wrapper.channels \/ call.frame >= wrapper.frames)
        /\ InRange(wrapper, call.channel, call.frame) =>
              /\ call.ret # Panic
              /\ call.ret.some
              /\ call.op = "get" => call.ret.val # Dangling
              /\ call.op = "get_mut" => InStorage(buf, call.ret.val)

C1_Witness ==
    /\ call.op = "get"
    /\ wrapper.channels = MaxChannels
    /\ wrapper.frames = MaxFrames
    /\ call.channel = wrapper.channels
    /\ call.frame = 0
    /\ call.ret = None

\* the storage that holds the samples L in the order of a wrapper kind:
\* frame after frame for the interleaved kinds, channel after channel for
\* the sequential ones
Layout(kind, L, channels, frames) ==
    CASE kind = "InterleavedSlice" ->
            [i \in 1..(channels * frames) |-> L[<<(i - 1) % channels, (i - 1) \div channels>>]]
      [] kind = "SequentialSlice" ->
            [i \in 1..(channels * frames) |-> L[<<(i - 1) \div frames, (i - 1) % frames>>]]
      [] kind = "SequentialSliceOfVecs" ->
            [c \in 1..channels |-> [f \in 1..frames |-> L[<<c - 1, f - 1>>]]]
      [] kind = "InterleavedSliceOfVecs" ->
            [f \in 1..frames |-> [c \in 1..channels |-> L[<<c - 1, f - 1>>]]]

\* C2: the four typed wrappers, given the same extents and storages that
\* hold the same samples each in its own order, return the same value from
\* get at every coordinate inside the extents; the offset of a sample is
\* channel * frames + frame in a SequentialSlice and frame * channels +
\* channel in an InterleavedSlice.
C2_LayoutEquivalence ==
    wrapper.kind \in TypedKinds =>
        \A kind \in TypedKinds :
            LET w == [wrapper EXCEPT !.kind = kind]
                b == Layout(kind, logical, wrapper.channels, wrapper.frames)
            IN  \A p \in Coords(wrapper) :
                    /\ get(w, b, p[1], p[2]) = Some(Ref(logical[p]))
                    /\ kind = "SequentialSlice" =>
                            calc_index(w, p[1], p[2]) = p[1] * w.frames + p[2]
                    /\ kind = "InterleavedSlice" =>
                            calc_index(w, p[1], p[2]) = p[2] * w.channels + p[1]

C2_Witness ==
    /\ wrapper.kind = "InterleavedSlice"
    /\ wrapper.channels = MaxChannels
    /\ wrapper.frames = MaxFrames
    /\ nwrites = MaxWrites
    /\ call.op = "get"
    /\ call.channel = 1
    /\ call.frame = 0
    /\ logical[<<1, 0>>] # logical[<<0, 1>>]
    /\ call.ret = Some(Ref(logical[<<1, 0>>]))

\* C3: after any writes through get_mut, get returns at every coordinate
\* the value last written to it, and at a coordinate never written to the
\* value it held at construction: a write changes its own coordinate only.
C3_WriteThenGet ==
    wrapper.kind \in TypedKinds =>
        \A p \in Coords(wrapper) : get(wrapper, buf, p[1], p[2]) = Some(Ref(logical[p]))

C3_Witness ==
    /\ wrapper.kind \in TypedKinds
    /\ nwrites = MaxWrites
    /\ call.op = "get_mut"
    /\ call.ret # None
    /\ logical[<<call.channel, call.frame>>] = call.value
    /\ \E p \in Coords(wrapper) :
          /\ p # <<call.channel, call.frame>>
          /\ logical[p] \in SampleValues
          /\ logical[p] # call.value
    /\ \E p \in Coords(wrapper) : logical[p] \notin SampleValues


(***************************************************************************)
(* The construction of a wrapper: the caller picks a storage, a wrapper    *)
(* type and the extents, and new or new_mut checks the storage against     *)
(* them.                                                                   *)
(***************************************************************************)
\* the extents a caller asks for: the small ones, and a channel count of
\* half the usize range, whose product with two or more frames overflows
ChannelArgs == (0..MaxChannels) \cup {Pow2(UsizeBits - 1)}

FrameArgs == 0..MaxFrames

\* the lengths of the flat storages and the shapes of the vectors of vectors
MaxFlatLen == MaxChannels * MaxFrames + 1

MaxByteLen == MaxChannels * MaxFrames * 8 + 1

VecShapes == UNION {[1..n -> 0..MaxFrames] : n \in 0..(MaxChannels + 1)}

NewInit ==
    /\ wrapper = NoWrapper
    /\ logical = <<>>
    /\ nwrites = 0
    /\ iters = NoIters
    /\ conv = CodecIdle
    /\ \E mutable \in BOOLEAN, channels \in ChannelArgs, frames \in FrameArgs :
          \/ \E kind \in TypedFlatKinds, n \in 0..MaxFlatLen :
                /\ buf = FlatStorage(n)
                /\ call = NewCall(mutable, kind, "none", "none", channels, frames, "called", None)
          \/ \E kind \in TypedVecKinds, lens \in VecShapes :
                /\ buf = VecStorage(lens)
                /\ call = NewCall(mutable, kind, "none", "none", channels, frames, "called", None)
          \/ \E kind \in ByteKinds, sformat \in SampleFormat, T \in SampleTypes,
                n \in 0..MaxByteLen :
                /\ buf = [i \in 1..n |-> 0]
                /\ call = NewCall(mutable, kind, sformat, T, channels, frames, "called", None)

\* new or new_mut, in a build with or without overflow checks
New ==
    /\ call.op \in {"new", "new_mut"}
    /\ call.state = "called"
    /\ \E overflow_checks \in BOOLEAN :
          LET r == IF overflow_checks
                      /\ NewOverflows(call.kind, call.fmt, call.channels, call.frames)
                   THEN Panic
                   ELSE IF call.kind \in ByteKinds
                   THEN new_bytes(call.kind, call.fmt, call.T, call.op = "new_mut", buf,
                                  call.channels, call.frames)
                   ELSE new(call.kind, call.op = "new_mut", buf, call.channels, call.frames)
          IN  /\ call' = [call EXCEPT !.state = "returned", !.ret = r]
              /\ wrapper' = IF r # Panic /\ r.ok THEN r.val ELSE NoWrapper
    /\ UNCHANGED <<buf, logical, nwrites, conv, iters>>

NewNext == New

SpecNew == NewInit /\ [][NewNext]_vars

\* the storage needed for the extents asked for, as a number
Required(c) ==
    c.channels * c.frames * (IF c.kind \in ByteKinds THEN bytes_per_sample(c.fmt) ELSE 1)

\* C4: the construction of a flat wrapper succeeds if and only if the
\* storage is at least channels * frames samples long (times the bytes of a
\* sample for a byte wrapper); otherwise it returns a BufferSizeError that
\* carries the actual and the required length, and no wrapper.
C4_FlatConstruction ==
    (/\ call.op \in {"new", "new_mut"}
     /\ call.state = "returned"
     /\ call.kind \in TypedFlatKinds \cup ByteKinds) =>
        /\ call.ret # Panic
        /\ call.ret.ok <=> Len(buf) >= Required(call)
        /\ call.ret.ok =>
              /\ wrapper.channels = call.channels
              /\ wrapper.frames = call.frames
        /\ ~call.ret.ok =>
              /\ wrapper = NoWrapper
              /\ call.ret.err.actual = Len(buf)
              /\ call.ret.err.required = Required(call)

F32Values ==
    {Flt(k, -3) : k \in -MaxEighths..MaxEighths}
    \cup {Flt(s * 32767, -15) : s \in {-1, 1}}          \* +-(2^15-1)/2^15
    \cup {Flt(s * 65535, -16) : s \in {-1, 1}}          \* +-(2^15-1/2)/2^15
    \cup {Flt(s * 8388607, -23) : s \in {-1, 1}}        \* +-(2^23-1)/2^23
    \cup {Flt(s * 16777215, -24) : s \in {-1, 1}}       \* +-(2^23-1/2)/2^23
    \cup {Flt(s * 8388609, -23) : s \in {-1, 1}}        \* +-(1 + 2^-23)
    \cup {Flt(s * 8616409, -25) : s \in {-1, 1}}        \* 0.256789 as an f32

\* values only an f64 holds exactly
F64OnlyValues ==
    {Flt(s * 2147483647, -31) : s \in {-1, 1}}          \* +-(2^31-1)/2^31
    \cup {Flt(s * 1073741825, -30) : s \in {-1, 1}}     \* +-(1 + 2^-30)
    \cup {Flt(s * 1102900357, -32) : s \in {-1, 1}}     \* about +-0.256789

Values(T) == IF T = "f32" THEN F32Values ELSE F32Values \cup F64OnlyValues

(***************************************************************************)
(* The codec as a state machine: a call is drawn with its arguments, then  *)
(* the conversion runs and conv holds what it returned.                    *)
(***************************************************************************)
\* the integers k a format of the given bit width is decoded from: those
\* next to zero, next to a half and next to the two ends of its range
CodeInts(bits) ==
    LET h == Pow2(bits - 2)
    IN  (-MaxCode..MaxCode)
        \cup {h + j : j \in -MaxCode..MaxCode} \cup {-h + j : j \in -MaxCode..MaxCode}
        \cup {(h - 1) + h - j : j \in 0..MaxCode} \cup {-h - h + j : j \in 0..MaxCode}

\* the byte patterns handed to the from_* function of a format
CodeBytes(fmt) ==
    CASE fmt = "S16LE" -> {to_le_bytes(k, 2) : k \in CodeInts(16)}
      [] fmt = "S16BE" -> {to_be_bytes(k, 2) : k \in CodeInts(16)}
      [] fmt = "S24LE3" -> {to_le_bytes(k, 3) : k \in CodeInts(24)}
      [] fmt = "S24BE3" -> {to_be_bytes(k, 3) : k \in CodeInts(24)}
      [] fmt = "S24LE4" -> {to_le_bytes(k, 3) \o <<p>> : k \in CodeInts(24), p \in {0, 255}}
      [] fmt = "S24BE4" -> {<<p>> \o to_be_bytes(k, 3) : k \in CodeInts(24), p \in {0, 255}}
      [] fmt = "S32LE" -> {to_le_bytes(k, 4) : k \in CodeInts(32)}
      [] fmt = "S32BE" -> {to_be_bytes(k, 4) : k \in CodeInts(32)}
      [] fmt = "F32LE" -> {Reverse(F32BeBytes(v)) : v \in F32Values}
      [] fmt = "F32BE" -> {F32BeBytes(v) : v \in F32Values}
      [] fmt = "F64LE" -> {Reverse(F64BeBytes(v)) : v \in Values("f64")}
      [] fmt = "F64BE" -> {F64BeBytes(v) : v \in Values("f64")}

\* what a call of the codec was given, kept to compare a round trip against
NoInput == [input |-> "none"]

CodecCalls ==
    {[op |-> "to_call", prev |-> "none", T |-> T, fmt |-> fmt, value |-> v,
      bytes |-> <<>>, clipped |-> FALSE, from |-> NoInput] :
        T \in SampleTypes, fmt \in SampleFormat, v \in Values("f64")}
    \cup
    UNION {{[op |-> "from_call", prev |-> "none", T |-> T, fmt |-> fmt, value |-> Flt(0, 0),
             bytes |-> b, clipped |-> FALSE, from |-> NoInput] :
                T \in SampleTypes, b \in CodeBytes(fmt)} : fmt \in SampleFormat}

\* no wrapper is involved in a call of the codec
NoSession ==
    /\ wrapper = NoWrapper
    /\ buf = <<>>
    /\ call = [op |-> "none", state |-> "returned"]
    /\ logical = <<>>
    /\ nwrites = 0
    /\ iters = NoIters

CodecInit ==
    /\ conv \in {c \in CodecCalls : c.op = "to_call" => c.value \in Values(c.T)}
    /\ NoSession

\* one call of a to_* function, on a value drawn or on the value just decoded
EncodeSample ==
    /\ \/ conv.op = "to_call"
       \/ conv.op = "decode" /\ conv.prev = "from_call"
    /\ \E enc \in {Encode(conv.T, conv.fmt, conv.value)} :
          conv' = [conv EXCEPT !.op = "encode",
                               !.prev = conv.op,
                               !.bytes = enc.bytes,
                               !.clipped = enc.clipped,
                               !.from = IF conv.op = "decode" THEN [bytes |-> conv.bytes]
                                        ELSE NoInput]
    /\ UNCHANGED <<wrapper, buf, call, logical, nwrites, iters>>

\* one call of a from_* function, on bytes drawn or on the bytes just encoded
DecodeSample ==
    /\ \/ conv.op = "from_call"
       \/ conv.op = "encode" /\ conv.prev = "to_call"
    /\ conv' = [conv EXCEPT !.op = "decode",
                            !.prev = conv.op,
                            !.value = Decode(conv.T, conv.fmt, conv.bytes),
                            !.from = IF conv.op = "encode" THEN [value |-> conv.value]
                                     ELSE NoInput]
    /\ UNCHANGED <<wrapper, buf, call, logical, nwrites, iters>>

CodecNext == EncodeSample \/ DecodeSample

SpecCodec == CodecInit /\ [][CodecNext]_vars

(***************************************************************************)
(* Claims about the codec.                                                 *)
(***************************************************************************)
\* the value a to_* function hands to its clamp
PreClamp(T, fmt, v) ==
    CASE fmt \in {"S16LE", "S16BE"} -> FMul(T, v, MAX_I16)
      [] fmt \in {"F32LE", "F32BE"} -> RoundTo("f32", v)
      [] fmt \in {"F64LE", "F64BE"} -> v
      [] OTHER -> FMul(T, v, MAX_I32)

\* the clamp a to_* function applies
ClampOf(T, fmt, x) ==
    CASE fmt \in {"S16LE", "S16BE"} -> clamp_int(T, "i16", x)
      [] fmt \in FloatFormats -> clamp_float(x)
      [] OTHER -> clamp_int(T, "i32", x)

\* (2^(N-1) - 1) / 2^(N-1), the largest value an N-bit integer format holds
ExactMax(fmt) ==
    CASE fmt \in {"S16LE", "S16BE"} -> Flt(32767, -15)
      [] fmt \in {"S24LE3", "S24BE3", "S24LE4", "S24BE4"} -> Flt(8388607, -23)
      [] fmt \in {"S32LE", "S32BE"} -> Flt(2147483647, -31)

\* C8: encoding 1.0 or a value above 1.0 reports clipped = true in every
\* format and for both sample types, and encoding an integer format's exact
\* representable maximum reports clipped = false.
C8_ClippingBoundary ==
    conv.op = "encode" =>
        /\ FGe(conv.value, One) => conv.clipped
        /\ (conv.fmt \in IntFormats /\ conv.value = ExactMax(conv.fmt)) => ~conv.clipped

\* C9: the flag an encode returns is true exactly when the clamp changed the
\* value it was given.
C9_ClippedIffAltered ==
    conv.op = "encode" =>
        LET pre == PreClamp(conv.T, conv.fmt, conv.value)
        IN  conv.clipped <=> (ClampOf(conv.T, conv.fmt, pre).val # pre)

\* the bytes of the largest and of the smallest value of each format
MaxBytes(fmt) ==
    CASE fmt = "S16LE" -> <<255, 127>>
      [] fmt = "S16BE" -> <<127, 255>>
      [] fmt = "S24LE3" -> <<255, 255, 127>>
      [] fmt = "S24BE3" -> <<127, 255, 255>>
      [] fmt = "S24LE4" -> <<255, 255, 127, 0>>
      [] fmt = "S24BE4" -> <<0, 127, 255, 255>>
      [] fmt = "S32LE" -> <<255, 255, 255, 127>>
      [] fmt = "S32BE" -> <<127, 255, 255, 255>>
      [] fmt = "F32LE" -> <<0, 0, 128, 63>>
      [] fmt = "F32BE" -> <<63, 128, 0, 0>>
      [] fmt = "F64LE" -> <<0, 0, 0, 0, 0, 0, 240, 63>>
      [] fmt = "F64BE" -> <<63, 240, 0, 0, 0, 0, 0, 0>>

MinBytes(fmt) ==
    CASE fmt = "S16LE" -> <<0, 128>>
      [] fmt = "S16BE" -> <<128, 0>>
      [] fmt = "S24LE3" -> <<0, 0, 128>>
      [] fmt = "S24BE3" -> <<128, 0, 0>>
      [] fmt = "S24LE4" -> <<0, 0, 128, 0>>
      [] fmt = "S24BE4" -> <<0, 128, 0, 0>>
      [] fmt = "S32LE" -> <<0, 0, 0, 128>>
      [] fmt = "S32BE" -> <<128, 0, 0, 0>>
      [] fmt = "F32LE" -> <<0, 0, 128, 191>>
      [] fmt = "F32BE" -> <<191, 128, 0, 0>>
      [] fmt = "F64LE" -> <<0, 0, 0, 0, 0, 0, 240, 191>>
      [] fmt = "F64BE" -> <<191, 240, 0, 0, 0, 0, 0, 0>>

\* C10: a value above the format's range (1.0 and above for the integer
\* formats, above 1.0 for the float formats) encodes to the bytes of the
\* format's largest value, a value below -1.0 to the bytes of its smallest
\* value, each with clipped = true.
C10_Saturates ==
    conv.op = "encode" =>
        /\ (IF conv.fmt \in IntFormats THEN FGe(conv.value, One) ELSE FGt(conv.value, One))
              => (conv.bytes = MaxBytes(conv.fmt) /\ conv.clipped)
        /\ FLt(conv.value, FNeg(One))
              => (conv.bytes = MinBytes(conv.fmt) /\ conv.clipped)

\* the bit width N of an integer format
FormatBits(fmt) ==
    CASE fmt \in {"S16LE", "S16BE"} -> 16
      [] fmt \in {"S24LE3", "S24BE3", "S24LE4", "S24BE4"} -> 24
      [] fmt \in {"S32LE", "S32BE"} -> 32

\* the integer the stated recipe stores: the value times 2^(N-1), clamped to
\* the signed N-bit range, truncated toward zero
RecipeInt(T, fmt, v) ==
    LET bits == FormatBits(fmt)
        x == FMul(T, v, [m |-> 1, e |-> bits - 1])
        h == Pow2(bits - 2)
    IN  IF x.m = 0 THEN 0
        ELSE IF Top(x) > bits - 1 THEN (IF x.m > 0 THEN (h - 1) + h ELSE -h - h)
        ELSE IF x.e >= 0 THEN x.m * Pow2(x.e)
        ELSE Sgn(x.m) * (Abs(x.m) \div Pow2(-x.e))

\* the bytes of the N-bit integer k as a format lays them out
IntImage(fmt, k) ==
    CASE fmt = "S16LE" -> to_le_bytes(k, 2)
      [] fmt = "S16BE" -> to_be_bytes(k, 2)
      [] fmt = "S24LE3" -> to_le_bytes(k, 3)
      [] fmt = "S24BE3" -> to_be_bytes(k, 3)
      [] fmt = "S24LE4" -> to_le_bytes(k, 3) \o <<0>>
      [] fmt = "S24BE4" -> <<0>> \o to_be_bytes(k, 3)
      [] fmt = "S32LE" -> to_le_bytes(k, 4)
      [] fmt = "S32BE" -> to_be_bytes(k, 4)

\* C11: in every integer format the bytes an encode returns are those of
\* the value multiplied by 2^(N-1) (N = 16, 24, 32), clamped to the signed
\* N-bit range and truncated toward zero, in the byte order of the format;
\* the 24-bit formats round negative values toward zero as the others do.
C11_IntegerRecipe ==
    (conv.op = "encode" /\ conv.fmt \in IntFormats) =>
        conv.bytes = IntImage(conv.fmt, RecipeInt(conv.T, conv.fmt, conv.value))

\* the signed N-bit integer the sample bytes of an integer format denote
DenotedInt(fmt, bytes) ==
    CASE fmt \in {"S16LE", "S24LE3", "S32LE"} -> from_le_bytes(bytes)
      [] fmt \in {"S16BE", "S24BE3", "S32BE"} -> from_be_bytes(bytes)
      [] fmt = "S24LE4" -> from_le_bytes(SubSeq(bytes, 1, 3))
      [] fmt = "S24BE4" -> from_be_bytes(SubSeq(bytes, 2, 4))

\* the bytes of the float x as a float format lays them out
FloatImage(fmt, x) ==
    CASE fmt = "F32LE" -> Reverse(F32BeBytes(x))
      [] fmt = "F32BE" -> F32BeBytes(x)
      [] fmt = "F64LE" -> Reverse(F64BeBytes(x))
      [] fmt = "F64BE" -> F64BeBytes(x)

\* C12: a decode never clips.  For an integer format the decoded value is
\* the signed integer the bytes denote divided by 2^(N-1), so that
\* -1.0 <= v < +1.0, and the most negative pattern decodes to -1.0; for a
\* float format the decoded value is the value the bytes encode, also
\* outside [-1.0, +1.0].
C12_DecodeNeverClips ==
    conv.op = "decode" =>
        IF conv.fmt \in IntFormats
        THEN LET k == DenotedInt(conv.fmt, conv.bytes)
                 bits == FormatBits(conv.fmt)
             IN  /\ conv.value = Flt(k, -(bits - 1))
                 /\ FGe(conv.value, FNeg(One))
                 /\ FLt(conv.value, One)
                 /\ k = -Pow2(bits - 2) - Pow2(bits - 2) => conv.value = FNeg(One)
        ELSE conv.bytes = FloatImage(conv.fmt, conv.value)

\* the formats a sample type converts to and from without loss
Lossless(T, fmt) == fmt \in IntFormats /\ ~(T = "f32" /\ FormatBits(fmt) = 32)

\* v = k / 2^(N-1) for a signed N-bit integer k
OnGrid(fmt, v) ==
    /\ v.m = 0 \/ v.e >= -(FormatBits(fmt) - 1)
    /\ FGe(v, FNeg(One))
    /\ FLt(v, One)

GridInt(fmt, v) ==
    LET shift == v.e + FormatBits(fmt) - 1
    IN  IF v.m = 0 \/ shift = 0 THEN v.m ELSE (v.m * Pow2(shift - 1)) * 2

\* the padding byte of a 4-byte 24-bit pattern is zero
ZeroPadded(fmt, bytes) ==
    /\ fmt = "S24LE4" => bytes[4] = 0
    /\ fmt = "S24BE4" => bytes[1] = 0

\* C13: in the 16- and 24-bit formats with either sample type, and in the
\* 32-bit formats with f64, a value k / 2^(N-1) encodes to the bytes of k
\* with clipped = false and those bytes decode to the same value; and a
\* byte pattern with zero padding decodes to a value that encodes to the
\* same bytes with clipped = false.
C13_RoundTrip ==
    /\ (conv.op = "encode" /\ conv.prev = "to_call" /\ Lossless(conv.T, conv.fmt)
            /\ OnGrid(conv.fmt, conv.value))
          => /\ conv.bytes = IntImage(conv.fmt, GridInt(conv.fmt, conv.value))
             /\ ~conv.clipped
    /\ (conv.op = "decode" /\ conv.prev = "encode" /\ Lossless(conv.T, conv.fmt)
            /\ OnGrid(conv.fmt, conv.from.value))
          => conv.value = conv.from.value
    /\ (conv.op = "encode" /\ conv.prev = "decode" /\ Lossless(conv.T, conv.fmt)
            /\ ZeroPadded(conv.fmt, conv.from.bytes))
          => /\ conv.bytes = conv.from.bytes
             /\ ~conv.clipped

\* -(2^23 - 1) / 2^23 as an f32 went through S24BE4 and came back
C13_Witness ==
    /\ conv.op = "decode" /\ conv.prev = "encode"
    /\ conv.T = "f32" /\ conv.fmt = "S24BE4"
    /\ conv.from = [value |-> Flt(-8388607, -23)]
    /\ conv.bytes = <<0, 128, 0, 1>>
    /\ conv.value = Flt(-8388607, -23)

\* the 3-byte format of the byte order of a 4-byte 24-bit format
Packed(fmt) == IF fmt = "S24LE4" THEN "S24LE3" ELSE "S24BE3"

\* a 4-byte 24-bit pattern without its padding byte
Unpadded(fmt, bytes) == IF fmt = "S24LE4" THEN SubSeq(bytes, 1, 3) ELSE SubSeq(bytes, 2, 4)

\* C14: the 4-byte 24-bit encoding of a value has a zero padding byte, last
\* in the little-endian format and first in the big-endian one; the 3-byte
\* encoding of the same value in the same byte order is those 4 bytes
\* without the padding byte, with the same clipped flag; and the two
\* encodings decode to the same value.
C14_Packing ==
    conv.fmt \in {"S24LE4", "S24BE4"} =>
        /\ conv.op = "encode" =>
              LET packed == Encode(conv.T, Packed(conv.fmt), conv.value)
              IN  /\ Len(conv.bytes) = 4
                  /\ conv.bytes[IF conv.fmt = "S24LE4" THEN 4 ELSE 1] = 0
                  /\ packed.bytes = Unpadded(conv.fmt, conv.bytes)
                  /\ packed.clipped = conv.clipped
        /\ (conv.op = "decode" /\ conv.prev = "encode") =>
              conv.value = Decode(conv.T, Packed(conv.fmt),
                                  Encode(conv.T, Packed(conv.fmt), conv.from.value).bytes)

\* -0.256789 as an f64 was encoded to S24BE4
C14_Witness ==
    /\ conv.op = "encode" /\ conv.prev = "to_call"
    /\ conv.T = "f64" /\ conv.fmt = "S24BE4"
    /\ conv.value = Flt(-1102900357, -32)
    /\ conv.bytes = <<0, 223, 33, 137>>
    /\ ~conv.clipped

(***************************************************************************)
(* The bulk injections of the converting wrappers.                         *)
(***************************************************************************)
\* a faulty count, against which the count of clipped values is validated:
\* nbr_clipped is assigned, not added to
CountClippedLast(before, done) ==
    IF done = Panic THEN Panic
    ELSE [buf |-> done.buf, clipped |-> IF done.ret THEN 1 ELSE 0]

\* nbr_clipped += self.write_unchecked(..) as usize
CountClipped(before, done) ==
    IF done = Panic THEN Panic
    ELSE [buf |-> done.buf, clipped |-> before.clipped + (IF done.ret THEN 1 ELSE 0)]

\* the loop of the two bulk injections: the storage after the first n items
\* of the slice are written and the number of them that clipped
RECURSIVE ConvertIn(_, _, _, _, _, _, _)
ConvertIn(w, b, along, index, start, slice, n) ==
    IF n = 0 THEN [buf |-> b, clipped |-> 0]
    ELSE LET before == ConvertIn(w, b, along, index, start, slice, n - 1)
             channel == IF along = "channel" THEN index ELSE start + n - 1
             frame == IF along = "channel" THEN start + n - 1 ELSE index
         IN  IF before = Panic THEN Panic
             ELSE CountClipped(before,
                               write_unchecked(w, before.buf, channel, frame, slice[n]))

\* what a bulk injection returns, (count, nbr_clipped), and the storage it leaves
Counted(count, done) ==
    IF done = Panic THEN Panic ELSE [buf |-> done.buf, ret |-> <<count, done.clipped>>]

\* ConverterMut::write_from_slice_to_channel
write_from_slice_to_channel(w, b, channel, start, slice) ==
    IF channel >= w.channels \/ start >= w.frames
    THEN [buf |-> b, ret |-> <<0, 0>>]
    ELSE LET frames_to_read == to_copy(w.frames, start, Len(slice))
         IN  Counted(frames_to_read, ConvertIn(w, b, "channel", channel, start, slice, frames_to_read))

\* ConverterMut::write_from_slice_to_frame
write_from_slice_to_frame(w, b, frame, start, slice) ==
    IF frame >= w.frames \/ start >= w.channels
    THEN [buf |-> b, ret |-> <<0, 0>>]
    ELSE LET channels_to_read == to_copy(w.channels, start, Len(slice))
         IN  Counted(channels_to_read, ConvertIn(w, b, "frame", frame, start, slice, channels_to_read))

\* the slices handed to the bulk injections of a converting wrapper
ValueSlices == UNION {[1..length -> ByteValues] : length \in 0..MaxSlice}

ConverterInjection(op, along) ==
    /\ Ready
    /\ wrapper.kind \in ByteKinds
    /\ wrapper.mutable
    /\ nwrites < MaxByteWrites
    /\ LET count == IF along = "channel" THEN wrapper.channels ELSE wrapper.frames
           extent == IF along = "channel" THEN wrapper.frames ELSE wrapper.channels
       IN  \E index \in 0..count, start \in 0..extent, slice \in ValueSlices :
              \E r \in {IF along = "channel"
                        THEN write_from_slice_to_channel(wrapper, buf, index, start, slice)
                        ELSE write_from_slice_to_frame(wrapper, buf, index, start, slice)} :
                  /\ call' = [op |-> op, state |-> "returned", index |-> index,
                              start |-> start, slice |-> slice,
                              ret |-> IF r = Panic THEN Panic ELSE [ret |-> r.ret]]
                  /\ buf' = IF r = Panic THEN buf ELSE r.buf
                  /\ logical' = IF index < count /\ start < extent
                                THEN Stores(wrapper, logical, along, index, start,
                                            [i \in 1..Len(slice) |-> Stored(wrapper, slice[i])],
                                            Min(extent - start, Len(slice)))
                                ELSE logical
    /\ nwrites' = nwrites + 1
    /\ UNCHANGED <<wrapper, conv, iters>>

WriteFromSliceToChannel == ConverterInjection("write_from_slice_to_channel", "channel")

WriteFromSliceToFrame == ConverterInjection("write_from_slice_to_frame", "frame")

ConvertInit == ByteInit /\ wrapper.mutable

ConvertNext == WriteFromSliceToChannel \/ WriteFromSliceToFrame

SpecConvert == ConvertInit /\ [][ConvertNext]_vars

(***************************************************************************)
(* Claims about the byte wrappers.                                         *)
(***************************************************************************)
\* the place of a coordinate in the order of the samples
LayoutOffset(w, channel, frame) ==
    IF w.kind = "InterleavedBytes" THEN frame * w.channels + channel
    ELSE channel * w.frames + frame

\* the bytes of the sample at a coordinate
SampleBytes(w, b, channel, frame) ==
    LET first == w.bytes_per_sample * LayoutOffset(w, channel, frame)
    IN  SubSeq(b, first + 1, first + w.bytes_per_sample)

\* the documented buffer: 16-bit little-endian, interleaved, 2 channels of 3 frames
DocBytes == <<0, 0, 0, 128, 0, 64, 0, 192, 0, 32, 0, 224>>

DocSamples ==
    (<<0, 0>> :> Flt(0, 0)) @@ (<<0, 1>> :> Flt(1, -1)) @@ (<<0, 2>> :> Flt(1, -2))
    @@ (<<1, 0>> :> Flt(-1, 0)) @@ (<<1, 1>> :> Flt(-1, -1)) @@ (<<1, 2>> :> Flt(-1, -2))

IsDocBuffer ==
    /\ wrapper.kind = "InterleavedBytes" /\ wrapper.fmt = "S16LE"
    /\ wrapper.channels = 2 /\ wrapper.frames = 3
    /\ SubSeq(buf, 1, 12) = DocBytes

\* C15: read(c, f) of a byte wrapper is the decode of the bytes_per_sample
\* bytes at byte offset bytes_per_sample * layout_offset(c, f); on the
\* documented 16-bit interleaved buffer it yields channel 0 =
\* [0.0, 0.5, 0.25] and channel 1 = [-1.0, -0.5, -0.25].
C15_ByteRead ==
    (call.op = "read" /\ InRange(wrapper, call.channel, call.frame)) =>
        /\ call.ret = Some(Decode(wrapper.T, wrapper.fmt,
                                  SampleBytes(wrapper, buf, call.channel, call.frame)))
        /\ IsDocBuffer => call.ret = Some(DocSamples[<<call.channel, call.frame>>])

\* the last frame of channel 1 of the documented buffer was read
C15_Witness ==
    /\ IsDocBuffer
    /\ call.op = "read" /\ call.channel = 1 /\ call.frame = 2
    /\ call.ret = Some(Flt(-1, -2))

\* what a step that calls write(c, f, v) does to the storage and returns
WriteEffect ==
    LET c == call'.channel
        f == call'.frame
        enc == Encode(wrapper.T, wrapper.fmt, call'.value)
        first == wrapper.bytes_per_sample * LayoutOffset(wrapper, c, f)
    IN  IF InRange(wrapper, c, f)
        THEN /\ call'.ret = Some(enc.clipped)
             /\ Len(buf') = Len(buf)
             /\ \A i \in 1..Len(buf) :
                   buf'[i] = IF i > first /\ i <= first + wrapper.bytes_per_sample
                             THEN enc.bytes[i - first] ELSE buf[i]
        ELSE /\ call'.ret = None
             /\ buf' = buf

\* a step that reads the coordinate the step before it wrote
ReadsBack ==
    /\ call.op = "write" /\ InRange(wrapper, call.channel, call.frame)
    /\ call'.op = "read" /\ call'.channel = call.channel /\ call'.frame = call.frame

\* C16: write(c, f, v) with (c, f) in range replaces the bytes_per_sample
\* bytes at the byte offset of the sample by encode(v), leaves every other
\* byte as it was and returns the clipped flag of that encode; out of range
\* it returns None and leaves the storage as it was.  A read of (c, f) that
\* follows returns decode(encode(v)).
C16_ByteWrite ==
    [][/\ (call'.op = "write" /\ nwrites' # nwrites) => WriteEffect
       /\ ReadsBack => call'.ret = Some(Decode(wrapper.T, wrapper.fmt,
                                         Encode(wrapper.T, wrapper.fmt, call.value).bytes))]_vars

\* 9/8 was written to the last sample of a 16-bit little-endian buffer and clipped
C16_Witness ==
    /\ wrapper.kind = "SequentialBytes" /\ wrapper.fmt = "S16LE"
    /\ wrapper.channels = 2 /\ wrapper.frames = 3
    /\ call.op = "write" /\ call.channel = 1 /\ call.frame = 2
    /\ call.value = Flt(9, -3)
    /\ call.ret = Some(TRUE)
    /\ SubSeq(buf, 1, 12) = <<0, 0, 0, 128, 0, 64, 0, 192, 0, 32, 255, 127>>

\* what a step that calls a bulk injection of a converting wrapper returns
InjectionEffect ==
    LET along == IF call'.op = "write_from_slice_to_channel" THEN "channel" ELSE "frame"
        count == IF along = "channel" THEN wrapper.channels ELSE wrapper.frames
        extent == IF along = "channel" THEN wrapper.frames ELSE wrapper.channels
        slice == call'.slice
        n == Min(extent - call'.start, Len(slice))
        nclipped == Cardinality({i \in 1..n : Encode(wrapper.T, wrapper.fmt, slice[i]).clipped})
    IN  IF call'.index < count /\ call'.start < extent
        THEN /\ call'.ret = [ret |-> <<n, nclipped>>]
             /\ call'.ret.ret[2] <= call'.ret.ret[1]
        ELSE /\ call'.ret = [ret |-> <<0, 0>>]
             /\ buf' = buf

\* C17: write_from_slice_to_channel and write_from_slice_to_frame return
\* (count, clipped_count) with count = min(extent - start, input length)
\* for a valid index and start and clipped_count the number of those count
\* values whose encoding clipped; for an index out of range or start >=
\* the extent they return (0, 0) and leave the storage as it was.
C17_ConverterInjection ==
    [][(call'.op \in {"write_from_slice_to_channel", "write_from_slice_to_frame"}
            /\ nwrites' # nwrites) => InjectionEffect]_vars

\* of two values that clip, only the one that fitted in the channel was counted
C17_Witness ==
    /\ call.op = "write_from_slice_to_channel"
    /\ wrapper.channels = 2 /\ wrapper.frames = 3
    /\ call.index = 1 /\ call.start = 2
    /\ call.slice = <<Flt(9, -3), Flt(9, -3)>>
    /\ call.ret = [ret |-> <<1, 1>>]

(***************************************************************************)
(* The iterators of the typed wrappers.  An iterator is a record of the    *)
(* fields of its struct; the buffer it borrows is the wrapper.  A session  *)
(* keeps at most one iterator over samples and one iterator over channels  *)
(* or frames: making another of the wrapper drops them, as a mutable       *)
(* borrow of the wrapper requires.  The references a mutable iterator      *)
(* yields have the lifetime of the storage and stay with the caller, who   *)
(* may drop them at any time: held lists the references still live.        *)
(***************************************************************************)
ChannelSamples_new(w, mutable, channel) ==
    IF channel >= w.channels
    THEN None
    ELSE Some([type |-> "ChannelSamples", mutable |-> mutable, frame |-> 0,
               nbr_frames |-> w.frames, channel |-> channel])

\* a faulty FrameSamples::new, against which the order of iteration is
\* validated: the iterator starts at the second channel
FrameSamples_new_second(w, mutable, frame) ==
    IF frame >= w.frames
    THEN None
    ELSE Some([type |-> "FrameSamples", mutable |-> mutable, channel |-> 1,
               nbr_channels |-> w.channels, frame |-> frame])

FrameSamples_new(w, mutable, frame) ==
    IF frame >= w.frames
    THEN None
    ELSE Some([type |-> "FrameSamples", mutable |-> mutable, channel |-> 0,
               nbr_channels |-> w.channels, frame |-> frame])

Channels_new(w, mutable) ==
    [type |-> "Channels", mutable |-> mutable, channel |-> 0, nbr_channels |-> w.channels]

Frames_new(w, mutable) ==
    [type |-> "Frames", mutable |-> mutable, frame |-> 0, nbr_frames |-> w.frames]

\* next of ChannelSamples and of ChannelSamplesMut: the coordinate whose
\* sample is yielded and the iterator afterwards
ChannelSamples_next(self) ==
    IF self.frame >= self.nbr_frames
    THEN [ret |-> None, self |-> self]
    ELSE [ret |-> Some(<<self.channel, self.frame>>),
          self |-> [self EXCEPT !.frame = self.frame + 1]]

FrameSamples_next(self) ==
    IF self.channel >= self.nbr_channels
    THEN [ret |-> None, self |-> self]
    ELSE [ret |-> Some(<<self.channel, self.frame>>),
          self |-> [self EXCEPT !.channel = self.channel + 1]]

\* Option::unwrap
unwrap(x) == IF x.some THEN x.val ELSE Panic

\* a faulty Channels::next, against which the nested iteration is
\* validated: the channel yielded is always the first
Channels_next_first(w, self) ==
    IF self.channel >= self.nbr_channels
    THEN [ret |-> None, self |-> self]
    ELSE [ret |-> Some(unwrap(ChannelSamples_new(w, self.mutable, 0))),
          self |-> [self EXCEPT !.channel = self.channel + 1]]

\* next of Channels and of ChannelsMut
Channels_next(w, self) ==
    IF self.channel >= self.nbr_channels
    THEN [ret |-> None, self |-> self]
    ELSE [ret |-> Some(unwrap(ChannelSamples_new(w, self.mutable, self.channel))),
          self |-> [self EXCEPT !.channel = self.channel + 1]]

\* next of Frames and of FramesMut
Frames_next(w, self) ==
    IF self.frame >= self.nbr_frames
    THEN [ret |-> None, self |-> self]
    ELSE [ret |-> Some(unwrap(FrameSamples_new(w, self.mutable, self.frame))),
          self |-> [self EXCEPT !.frame = self.frame + 1]]

\* the iterator over samples has yielded every sample it covers
Exhausted(it) ==
    CASE it.type \in {"ChannelSamples", "Frames"} -> it.frame >= it.nbr_frames
      [] it.type \in {"FrameSamples", "Channels"} -> it.channel >= it.nbr_channels
      [] OTHER -> TRUE

\* the number of items the iterator yields
Extent(it) ==
    CASE it.type \in {"ChannelSamples", "Frames"} -> it.nbr_frames
      [] it.type \in {"FrameSamples", "Channels"} -> it.nbr_channels
      [] OTHER -> 0

IterReady ==
    /\ wrapper # NoWrapper
    /\ wrapper.kind \in TypedKinds
    /\ call.state = "returned"

\* the mutable form of a method exists on the wrappers made by new_mut
Forms == {mutable \in BOOLEAN : mutable => wrapper.mutable}

MethodName(name, mutable) == IF mutable THEN name \o "_mut" ELSE name

\* an iterator is made of the wrapper: the earlier ones are dropped
MakeIterator(made_call, outer, inner) ==
    /\ iters.made < MaxIters
    /\ call' = made_call
    /\ iters' = [iters EXCEPT !.made = iters.made + 1, !.outer = outer, !.inner = inner,
                              !.calls = 0, !.visited = <<>>, !.produced = <<>>,
                              !.complete = TRUE, !.start = logical]
    /\ UNCHANGED <<wrapper, buf, logical, nwrites, conv>>

\* AudioBuffer::iter_channel and AudioBufferMut::iter_channel_mut
IterChannel ==
    /\ IterReady
    /\ \E mutable \in Forms, channel \in 0..wrapper.channels :
          \E r \in {ChannelSamples_new(wrapper, mutable, channel)} :
              MakeIterator([op |-> MethodName("iter_channel", mutable), state |-> "returned",
                            index |-> channel, ret |-> r],
                           NoIter, IF r.some THEN r.val ELSE NoIter)

\* AudioBuffer::iter_frame and AudioBufferMut::iter_frame_mut
IterFrame ==
    /\ IterReady
    /\ \E mutable \in Forms, frame \in 0..wrapper.frames :
          \E r \in {FrameSamples_new(wrapper, mutable, frame)} :
              MakeIterator([op |-> MethodName("iter_frame", mutable), state |-> "returned",
                            index |-> frame, ret |-> r],
                           NoIter, IF r.some THEN r.val ELSE NoIter)

\* AudioBuffer::iter_channels and AudioBufferMut::iter_channels_mut
IterChannels ==
    /\ IterReady
    /\ \E mutable \in Forms :
          \E r \in {Channels_new(wrapper, mutable)} :
              MakeIterator([op |-> MethodName("iter_channels", mutable),
                            state |-> "returned", ret |-> r],
                           r, NoIter)

\* AudioBuffer::iter_frames and AudioBufferMut::iter_frames_mut
IterFrames ==
    /\ IterReady
    /\ \E mutable \in Forms :
          \E r \in {Frames_new(wrapper, mutable)} :
              MakeIterator([op |-> MethodName("iter_frames", mutable),
                            state |-> "returned", ret |-> r],
                           r, NoIter)

\* *sample = 2 * *sample through the reference yielded
Doubled(b, place) ==
    IF Deref(b, place) = Dangling THEN b ELSE Assign(b, place, 2 * Deref(b, place).val)

\* next of the iterator over samples; the caller doubles the sample a
\* mutable iterator yields and keeps the reference
NextSample ==
    /\ IterReady
    /\ iters.inner # NoIter
    /\ iters.calls < Extent(iters.inner) + MaxNone
    /\ \E r \in {IF iters.inner.type = "ChannelSamples"
                 THEN ChannelSamples_next(iters.inner)
                 ELSE FrameSamples_next(iters.inner)} :
          IF ~r.ret.some
          THEN /\ call' = [op |-> "next", state |-> "returned", of |-> iters.inner.type,
                           ret |-> None]
               /\ iters' = [iters EXCEPT !.inner = r.self, !.calls = iters.calls + 1]
               /\ UNCHANGED <<buf, logical>>
          ELSE IF ~iters.inner.mutable
          THEN /\ call' = [op |-> "next", state |-> "returned", of |-> iters.inner.type,
                           ret |-> Some(get_unchecked(wrapper, buf, r.ret.val[1], r.ret.val[2]))]
               /\ iters' = [iters EXCEPT !.inner = r.self, !.calls = iters.calls + 1,
                                         !.visited = Append(iters.visited, r.ret.val)]
               /\ UNCHANGED <<buf, logical>>
          ELSE \E place \in {get_unchecked_mut(wrapper, r.ret.val[1], r.ret.val[2])} :
               /\ call' = [op |-> "next", state |-> "returned", of |-> iters.inner.type,
                           ret |-> Some(place)]
               /\ iters' = [iters EXCEPT !.inner = r.self, !.calls = iters.calls + 1,
                                         !.visited = Append(iters.visited, r.ret.val),
                                         !.held = Append(iters.held, place)]
               /\ buf' = Doubled(buf, place)
               /\ logical' = [logical EXCEPT ![r.ret.val] = 2 * logical[r.ret.val]]
    /\ UNCHANGED <<wrapper, nwrites, conv>>

\* next of the iterator over channels or frames: the iterator yielded
\* replaces the caller's iterator over samples
NextSamples ==
    /\ IterReady
    /\ iters.outer # NoIter
    /\ \E r \in {IF iters.outer.type = "Channels"
                 THEN Channels_next(wrapper, iters.outer)
                 ELSE Frames_next(wrapper, iters.outer)} :
          /\ call' = [op |-> "next", state |-> "returned", of |-> iters.outer.type,
                      ret |-> r.ret]
          /\ iters' = IF r.ret.some
                      THEN [iters EXCEPT !.outer = r.self, !.inner = r.ret.val, !.calls = 0,
                                         !.produced = Append(iters.produced,
                                                             IF iters.outer.type = "Channels"
                                                             THEN iters.outer.channel
                                                             ELSE iters.outer.frame),
                                         !.complete = iters.complete /\ Exhausted(iters.inner)]
                      ELSE [iters EXCEPT !.outer = r.self]
    /\ UNCHANGED <<wrapper, buf, logical, nwrites, conv>>

\* the caller lets go of the mutable references it holds
DropReferences ==
    /\ IterReady
    /\ iters.held # <<>>
    /\ iters' = [iters EXCEPT !.held = <<>>]
    /\ UNCHANGED <<wrapper, buf, call, logical, nwrites, conv>>

IterInit == TypedInit

IterNext ==
    \/ IterChannel
    \/ IterFrame
    \/ IterChannels
    \/ IterFrames
    \/ NextSample
    \/ NextSamples
    \/ DropReferences

SpecIter == IterInit /\ [][IterNext]_vars

(***************************************************************************)
(* Claims about the iterators                                              *)
(***************************************************************************)
\* the coordinate of the k-th sample of an iterator over samples
KthCoordinate(it, k) ==
    IF it.type = "ChannelSamples" THEN <<it.channel, k - 1>> ELSE <<k - 1, it.frame>>

\* the iterator over samples was made by iter_channel or iter_frame
Direct == iters.outer = NoIter /\ iters.inner # NoIter /\ ~iters.inner.mutable

\* C18: iter_channel(c) is absent exactly when c >= channels and
\* iter_frame(f) exactly when f >= frames.  The iterator made starts at
\* position 0 of the channel or frame asked for, whatever was iterated
\* before.  Its k-th call of next yields the sample at (c, k - 1), or at
\* (k - 1, f), while k is at most the number of frames, or of channels,
\* and every later call returns None.
C18_SampleIteration ==
    /\ call.op = "iter_channel" =>
          /\ call.ret = None <=> call.index >= wrapper.channels
          /\ call.ret # None =>
                /\ iters.inner.type = "ChannelSamples"
                /\ iters.inner.channel = call.index /\ iters.inner.frame = 0
                /\ iters.calls = 0
    /\ call.op = "iter_frame" =>
          /\ call.ret = None <=> call.index >= wrapper.frames
          /\ call.ret # None =>
                /\ iters.inner.type = "FrameSamples"
                /\ iters.inner.frame = call.index /\ iters.inner.channel = 0
                /\ iters.calls = 0
    /\ (Direct /\ call.op = "next") =>
          IF iters.calls <= (IF iters.inner.type = "ChannelSamples"
                             THEN wrapper.frames ELSE wrapper.channels)
          THEN call.ret = Some(Ref(logical[KthCoordinate(iters.inner, iters.calls)]))
          ELSE call.ret = None

\* the second iterator over a channel of three frames has yielded all of
\* them and has answered None to one more call
C18_Witness ==
    /\ wrapper.kind = "InterleavedSlice" /\ wrapper.channels = 2 /\ wrapper.frames = 3
    /\ iters.made = 2 /\ Direct
    /\ iters.inner.type = "ChannelSamples" /\ iters.inner.channel = 1
    /\ iters.visited = <<<<1, 0>>, <<1, 1>>, <<1, 2>>>>
    /\ iters.calls = 4
    /\ call.op = "next" /\ call.ret = None

\* the coordinates of the wrapper, channel by channel and frame by frame
ChannelMajor(w) ==
    [i \in 1..(w.channels * w.frames) |-> <<(i - 1) \div w.frames, (i - 1) % w.frames>>]

FrameMajor(w) ==
    [i \in 1..(w.channels * w.frames) |-> <<(i - 1) % w.channels, (i - 1) \div w.channels>>]

\* the iterator over channels or frames is exhausted, and so was each
\* iterator it yielded before the next was asked for
NestedDone ==
    /\ iters.outer # NoIter
    /\ Exhausted(iters.outer)
    /\ iters.complete
    /\ Exhausted(iters.inner)

\* the number of channels, or of frames, the iterator goes over
OuterExtent ==
    IF iters.outer.type = "Channels" THEN wrapper.channels ELSE wrapper.frames

\* C19: the iterator made by iter_channels or iter_channels_mut yields
\* the iterators of channels 0, 1, ... in ascending order and answers
\* None only after exactly `channels` of them; when it and each iterator
\* it yielded have been driven to exhaustion, the samples yielded are
\* those of every coordinate exactly once, channel by channel.  The same
\* holds of iter_frames and iter_frames_mut, frame by frame.  Doubling
\* each sample the mutable form yields doubles every stored sample
\* exactly once.
C19_NestedIteration ==
    iters.outer # NoIter =>
        /\ iters.produced = [i \in 1..Len(iters.produced) |-> i - 1]
        /\ Len(iters.produced) <= OuterExtent
        /\ (call.op = "next" /\ call.of = iters.outer.type /\ call.ret = None) =>
              Len(iters.produced) = OuterExtent
        /\ iters.inner # NoIter =>
              /\ iters.inner.type = (IF iters.outer.type = "Channels"
                                     THEN "ChannelSamples" ELSE "FrameSamples")
              /\ iters.produced[Len(iters.produced)] =
                    (IF iters.outer.type = "Channels"
                     THEN iters.inner.channel ELSE iters.inner.frame)
        /\ NestedDone =>
              /\ iters.visited = (IF iters.outer.type = "Channels"
                                  THEN ChannelMajor(wrapper) ELSE FrameMajor(wrapper))
              /\ Snapshot(wrapper, buf) =
                    [p \in Coords(wrapper) |->
                        IF iters.outer.mutable THEN 2 * iters.start[p] ELSE iters.start[p]]

\* iter_frames_mut of the second iterator of a session has doubled each of
\* the six samples once
C19_Witness ==
    /\ wrapper.kind = "SequentialSlice" /\ wrapper.channels = 2 /\ wrapper.frames = 3
    /\ NestedDone
    /\ iters.outer.type = "Frames" /\ iters.outer.mutable
    /\ iters.produced = <<0, 1, 2>>
    /\ Len(iters.visited) = 6
    /\ Snapshot(wrapper, buf) = [p \in Coords(wrapper) |-> 2 * iters.start[p]]
    /\ call.op = "next" /\ call.of = "Frames" /\ call.ret = None

\* C20: whatever iterators a session makes of a mutable wrapper and
\* however it calls next on them, no two of the mutable references the
\* caller holds live at the same time point to the same sample.
C20_NoMutableAliasing ==
    \A i, j \in 1..Len(iters.held) : i # j => iters.held[i] # iters.held[j]

(***************************************************************************)
(* The statistics of the typed wrappers, for samples of the integer type   *)
(* i8.  The f64 a statistic returns is the float it equals when the        *)
(* quotient and its root are exact, and is named by the operation that     *)
(* rounds it when they are not.                                            *)
(***************************************************************************)
\* i8::MAX and i8::MIN
I8Max == 127

I8Min == -I8Max - 1

RECURSIVE Gcd(_, _)
Gcd(a, b) == IF b = 0 THEN a ELSE Gcd(b, a % b)

\* the largest integer whose square is at most n
ISqrt(n) == CHOOSE r \in 0..n : r * r <= n /\ (r + 1) * (r + 1) > n

\* square_sum / nbr_values as f64
F64Quot(square_sum, nbr_values) ==
    LET g == Gcd(square_sum, nbr_values)
        p == square_sum \div g
        q == nbr_values \div g
    IN  IF q = Pow2(BitLen(q) - 1)
        THEN Flt(p, -(BitLen(q) - 1))
        ELSE [quot |-> <<p, q>>]

\* f64::sqrt
F64Sqrt(x) ==
    IF "m" \in DOMAIN x /\ x.e % 2 = 0 /\ ISqrt(x.m) * ISqrt(x.m) = x.m
    THEN Flt(ISqrt(x.m), x.e \div 2)
    ELSE [sqrt |-> x]

\* the samples an iterator over samples yields until it is exhausted
RECURSIVE Collect(_, _, _)
CollectFrom(w, b, r) ==
    IF ~r.ret.some THEN <<>>
    ELSE <<get_unchecked(w, b, r.ret.val[1], r.ret.val[2]).val>> \o Collect(w, b, r.self)

Collect(w, b, it) ==
    CollectFrom(w, b, IF it.type = "ChannelSamples"
                      THEN ChannelSamples_next(it) ELSE FrameSamples_next(it))

\* fold((0.0, 0), |acc, x| (acc.0 + x.to_f64().powi(2), acc.1 + 1))
RECURSIVE SquareSum(_)
SquareSum(run) ==
    IF run = <<>> THEN 0 ELSE SquareSum(SubSeq(run, 1, Len(run) - 1)) + run[Len(run)] * run[Len(run)]

\* a faulty rms, against which the absence of a statistic is validated: an
\* empty run has the statistic 0.0
rms_of_nothing(run) ==
    IF Len(run) = 0
    THEN Some(Flt(0, 0))
    ELSE Some(F64Sqrt(F64Quot(SquareSum(run), Len(run))))

\* a faulty rms, against which the value of the statistic is validated:
\* the root of the sum, not of the mean
rms_of_sum(run) ==
    IF Len(run) = 0
    THEN None
    ELSE Some(F64Sqrt(F64Quot(SquareSum(run), 1)))

rms(run) ==
    IF Len(run) = 0
    THEN None
    ELSE Some(F64Sqrt(F64Quot(SquareSum(run), Len(run))))

channel_rms(w, b, channel) ==
    IF ~ChannelSamples_new(w, FALSE, channel).some THEN None
    ELSE rms(Collect(w, b, ChannelSamples_new(w, FALSE, channel).val))

frame_rms(w, b, frame) ==
    IF ~FrameSamples_new(w, FALSE, frame).some THEN None
    ELSE rms(Collect(w, b, FrameSamples_new(w, FALSE, frame).val))

\* fold([T::zero(), T::zero()], ...): the least and the greatest of zero
\* and the samples
RECURSIVE MinMax(_)
MinMaxStep(acc, x) ==
    IF x < acc[1] THEN <<x, acc[2]>>
    ELSE IF x > acc[2] THEN <<acc[1], x>>
    ELSE acc

MinMax(run) ==
    IF run = <<>> THEN <<0, 0>>
    ELSE MinMaxStep(MinMax(SubSeq(run, 1, Len(run) - 1)), run[Len(run)])

\* a - b in i8: a panic in a build with overflow checks, the difference
\* modulo 2^8 in one without
SubI8(a, b, overflow_checks) ==
    IF a - b <= I8Max /\ a - b >= I8Min THEN a - b
    ELSE IF overflow_checks THEN Panic
    ELSE ((a - b - I8Min) % (2 * (I8Max + 1))) + I8Min

peak_to_peak(run, overflow_checks) ==
    Some(SubI8(MinMax(run)[2], MinMax(run)[1], overflow_checks))

channel_peak_to_peak(w, b, channel, overflow_checks) ==
    IF ~ChannelSamples_new(w, FALSE, channel).some THEN None
    ELSE peak_to_peak(Collect(w, b, ChannelSamples_new(w, FALSE, channel).val),
                      overflow_checks)

frame_peak_to_peak(w, b, frame, overflow_checks) ==
    IF ~FrameSamples_new(w, FALSE, frame).some THEN None
    ELSE peak_to_peak(Collect(w, b, FrameSamples_new(w, FALSE, frame).val),
                      overflow_checks)

\* the samples the storages hold: the ends of the type, zero and its
\* neighbours, repeated with a period of at most MaxPeriod
StatSamples == {I8Min, -1, 0, 1, I8Max}

StatPatterns == UNION {[1..period -> StatSamples] : period \in 2..MaxPeriod}

StatContents(pattern, channels, frames) ==
    [p \in (0..(channels - 1)) \X (0..(frames - 1)) |->
        pattern[((p[1] * frames + p[2]) % Len(pattern)) + 1]]

StatsInit ==
    \E kind \in TypedKinds, mutable \in BOOLEAN, channels \in 0..MaxChannels,
       frames \in 0..MaxRun, pattern \in StatPatterns :
        \E b \in {Layout(kind, StatContents(pattern, channels, frames), channels, frames)} :
            /\ new(kind, mutable, b, channels, frames).ok
            /\ Constructed(new(kind, mutable, b, channels, frames).val, b, "none", "none")

\* a session takes one statistic of its wrapper
Statistic(op, index, overflow_checks, ret) ==
    /\ IterReady
    /\ call.op \in {"new", "new_mut"}
    /\ call' = [op |-> op, state |-> "returned", index |-> index,
                overflow_checks |-> overflow_checks, ret |-> ret]
    /\ UNCHANGED <<wrapper, buf, logical, nwrites, conv, iters>>

\* AudioBufferStats::channel_rms
ChannelRms ==
    \E channel \in 0..wrapper.channels :
        Statistic("channel_rms", channel, FALSE, channel_rms(wrapper, buf, channel))

\* AudioBufferStats::frame_rms
FrameRms ==
    \E frame \in 0..wrapper.frames :
        Statistic("frame_rms", frame, FALSE, frame_rms(wrapper, buf, frame))

\* AudioBufferStats::channel_peak_to_peak, in a build with or without
\* overflow checks
ChannelPeakToPeak ==
    \E channel \in 0..wrapper.channels, overflow_checks \in BOOLEAN :
        Statistic("channel_peak_to_peak", channel, overflow_checks,
                  channel_peak_to_peak(wrapper, buf, channel, overflow_checks))

\* AudioBufferStats::frame_peak_to_peak
FramePeakToPeak ==
    \E frame \in 0..wrapper.frames, overflow_checks \in BOOLEAN :
        Statistic("frame_peak_to_peak", frame, overflow_checks,
                  frame_peak_to_peak(wrapper, buf, frame, overflow_checks))

StatsNext == ChannelRms \/ FrameRms \/ ChannelPeakToPeak \/ FramePeakToPeak

SpecStats == StatsInit /\ [][StatsNext]_vars

(***************************************************************************)
(* Claims about the statistics                                             *)
(***************************************************************************)
\* the statistic was taken of a channel, or of a frame
OfChannel == call.op \in {"channel_rms", "channel_peak_to_peak"}

OfFrame == call.op \in {"frame_rms", "frame_peak_to_peak"}

\* the index of the call is outside the wrapper
OutOfRange ==
    \/ OfChannel /\ call.index >= wrapper.channels
    \/ OfFrame /\ call.index >= wrapper.frames

\* the number of samples of the run the call addresses
RunLength == IF OfChannel THEN wrapper.frames ELSE wrapper.channels

\* C21: channel_rms and frame_rms return None exactly when the index is
\* out of range, so an RMS value is returned for every valid index.
C21_RmsPresent ==
    call.op \in {"channel_rms", "frame_rms"} => (call.ret = None <=> OutOfRange)

\* C21, amended: channel_rms and frame_rms return None exactly when the
\* index is out of range or the run addressed has no samples.
C21_RmsAbsentOrEmpty ==
    call.op \in {"channel_rms", "frame_rms"} =>
        (call.ret = None <=> (OutOfRange \/ RunLength = 0))

\* channel_rms of the only channel of a wrapper of no frames
C21_Witness ==
    /\ call.op = "channel_rms" /\ call.index = 0
    /\ wrapper.channels = 1 /\ wrapper.frames = 0
    /\ call.ret = None

\* the samples of the run the call addresses, as the wrapper was constructed
TheRun ==
    [i \in 1..RunLength |->
        logical[IF OfChannel THEN <<call.index, i - 1>> ELSE <<i - 1, call.index>>]]

Greatest(S) == CHOOSE x \in S : \A y \in S : y <= x

Least(S) == CHOOSE x \in S : \A y \in S : x <= y

Samples(run) == {run[i] : i \in 1..Len(run)}

\* C22: channel_peak_to_peak and frame_peak_to_peak return None exactly
\* when the index is out of range.  Otherwise they return the greatest of
\* zero and the samples of the run less the least of zero and the samples:
\* the greatest sample less the least when the least is at most zero and
\* the greatest at least zero, and the distance from zero of a run that is
\* all positive or all negative.
C22_PeakToPeak ==
    call.op \in {"channel_peak_to_peak", "frame_peak_to_peak"} =>
        /\ call.ret = None <=> OutOfRange
        /\ ~OutOfRange =>
              /\ call.ret = Some(Greatest(Samples(TheRun) \cup {0})
                                 - Least(Samples(TheRun) \cup {0}))
              /\ (/\ RunLength > 0
                  /\ Least(Samples(TheRun)) <= 0
                  /\ Greatest(Samples(TheRun)) >= 0) =>
                    call.ret = Some(Greatest(Samples(TheRun)) - Least(Samples(TheRun)))
              /\ (RunLength > 0 /\ Least(Samples(TheRun)) > 0) =>
                    call.ret = Some(Greatest(Samples(TheRun)))
              /\ (RunLength > 0 /\ Greatest(Samples(TheRun)) < 0) =>
                    call.ret = Some(-Least(Samples(TheRun)))

\* the sum of the squares of the first n samples of a run
RECURSIVE SumOfSquares(_, _)
SumOfSquares(run, n) ==
    IF n = 0 THEN 0 ELSE run[n] * run[n] + SumOfSquares(run, n - 1)

\* sqrt(S / n) as an f64, for the run the call addresses
RootMeanSquare == F64Sqrt(F64Quot(SumOfSquares(TheRun, RunLength), RunLength))

\* the documented buffer: sequential, 2 channels of 4 frames, each channel
\* holding 1, -1, 1, -1
IsDocStats ==
    /\ wrapper.kind = "SequentialSlice" /\ wrapper.channels = 2 /\ wrapper.frames = 4
    /\ buf = <<1, -1, 1, -1, 1, -1, 1, -1>>

\* C23: for a valid index of a run that has samples (sqrt(S / n) is
\* defined for no other) channel_rms and frame_rms return sqrt(S / n),
\* where S is the sum of the squares of the samples of the run addressed
\* and of no others, and n the length of the run; channel_rms(0) of the
\* documented buffer is 1.0.
C23_Rms ==
    (call.op \in {"channel_rms", "frame_rms"} /\ ~OutOfRange /\ RunLength > 0) =>
        /\ call.ret = Some(RootMeanSquare)
        /\ (IsDocStats /\ call.op = "channel_rms" /\ call.index = 0) =>
              call.ret = Some(Flt(1, 0))

\* channel_rms(0) of the documented buffer
C23_Witness ==
    /\ IsDocStats
    /\ call.op = "channel_rms" /\ call.index = 0
    /\ call.ret = Some(Flt(1, 0))

\* C30: for samples of a bounded signed integer type the peak to peak is
\* computed without overflow: the value returned is the exact difference
\* of the greatest and the least of the run (and zero), also when the run
\* holds the largest and the smallest value of the type.
C30_ExactDifference ==
    (call.op \in {"channel_peak_to_peak", "frame_peak_to_peak"} /\ ~OutOfRange) =>
        /\ call.ret # Panic
        /\ call.ret.val = MinMax(TheRun)[2] - MinMax(TheRun)[1]

(***************************************************************************)
(* SampleReader::read_samples over a byte slice.  The call of the reader   *)
(* is kept in conv: the bytes left in the source, the output slice and     *)
(* what the call returned, with the source and the output as they were     *)
(* when it was made.                                                       *)
(***************************************************************************)
\* a faulty read_exact, against which the end of the input is validated:
\* a partial sample is filled up with zeros
read_exact_padding(data, n, eof_consumes) ==
    IF Len(data) >= n
    THEN [ok |-> TRUE, bytes |-> SubSeq(data, 1, n), rest |-> SubSeq(data, n + 1, Len(data))]
    ELSE IF Len(data) > 0
    THEN [ok |-> TRUE, bytes |-> data \o [i \in 1..(n - Len(data)) |-> 0], rest |-> <<>>]
    ELSE [ok |-> FALSE, rest |-> data]

\* Read::read_exact of a byte slice: n bytes, or UnexpectedEof when fewer
\* are left; what is then left of the source is not specified
read_exact(data, n, eof_consumes) ==
    IF Len(data) >= n
    THEN [ok |-> TRUE, bytes |-> SubSeq(data, 1, n), rest |-> SubSeq(data, n + 1, Len(data))]
    ELSE [ok |-> FALSE, rest |-> IF eof_consumes THEN <<>> ELSE data]

\* the loop of read_samples_to_slice from the i-th value of the output on
RECURSIVE read_samples_to_slice(_, _, _, _, _, _)
StoreRead(T, sformat, r, values, i, eof_consumes) ==
    IF ~r.ok
    THEN [rawbytes |-> r.rest, samples |-> values, nbr_read |-> i - 1]
    ELSE read_samples_to_slice(T, sformat, r.rest,
                               [values EXCEPT ![i] = Decode(T, sformat, r.bytes)],
                               i + 1, eof_consumes)

read_samples_to_slice(T, sformat, data, values, i, eof_consumes) ==
    IF i > Len(values)
    THEN [rawbytes |-> data, samples |-> values, nbr_read |-> i - 1]
    ELSE StoreRead(T, sformat, read_exact(data, bytes_per_sample(sformat), eof_consumes),
                   values, i, eof_consumes)

Returned(done) ==
    [rawbytes |-> done.rawbytes, samples |-> done.samples, ret |-> Ok(done.nbr_read)]

read_samples(T, sformat, rawbytes, samples, eof_consumes) ==
    Returned(read_samples_to_slice(T, sformat, rawbytes, samples, 1, eof_consumes))

\* the value the output holds before the call
Untouched == Flt(3, -2)

\* the sources hold up to MaxSource samples and a part of one more, the
\* outputs up to MaxOutput values
ReaderCalls ==
    UNION {{[op |-> "read_call", T |-> T, fmt |-> sformat,
             rawbytes |-> ByteStorage(T, sformat, available, extra),
             samples |-> [i \in 1..length |-> Untouched]] :
                available \in 0..MaxSource,
                extra \in 0..(bytes_per_sample(sformat) - 1),
                length \in 0..MaxOutput} :
           T \in SampleTypes, sformat \in SampleFormat}

ReaderInit ==
    /\ conv \in ReaderCalls
    /\ NoSession

ReadSamples ==
    /\ conv.op = "read_call"
    /\ \E eof_consumes \in BOOLEAN :
          \E r \in {read_samples(conv.T, conv.fmt, conv.rawbytes, conv.samples, eof_consumes)} :
              conv' = [op |-> "read_samples", T |-> conv.T, fmt |-> conv.fmt,
                       rawbytes |-> r.rawbytes, samples |-> r.samples, ret |-> r.ret,
                       source |-> conv.rawbytes, before |-> conv.samples]
    /\ UNCHANGED <<wrapper, buf, call, logical, nwrites, iters>>

ReaderNext == ReadSamples

SpecReader == ReaderInit /\ [][ReaderNext]_vars

\* the number of whole samples the source holds
Available == Len(conv.source) \div bytes_per_sample(conv.fmt)

NthSample(i) ==
    Decode(conv.T, conv.fmt,
           SubSeq(conv.source, (i - 1) * bytes_per_sample(conv.fmt) + 1,
                  i * bytes_per_sample(conv.fmt)))

\* C24: read_samples over a byte source returns Ok(n), with n the lesser
\* of the length of the output and the number of whole samples the source
\* holds, also when the source ends before the output is full or ends
\* within a sample.  The first n values of the output are the samples of
\* the source in order and the others are as they were.  When the output
\* is filled, n samples' bytes are consumed and no more.
C24_ReadSamples ==
    conv.op = "read_samples" =>
        /\ conv.ret = Ok(Min(Len(conv.before), Available))
        /\ Len(conv.samples) = Len(conv.before)
        /\ \A i \in 1..Len(conv.samples) :
              conv.samples[i] = IF i <= Min(Len(conv.before), Available)
                                THEN NthSample(i) ELSE conv.before[i]
        /\ Len(conv.before) <= Available =>
              conv.rawbytes = SubSeq(conv.source,
                                     Len(conv.before) * bytes_per_sample(conv.fmt) + 1,
                                     Len(conv.source))

\* a source of two 16-bit samples and one byte more read into an output
\* of three values
C24_Witness ==
    /\ conv.op = "read_samples" /\ conv.fmt = "S16LE" /\ conv.T = "f64"
    /\ Len(conv.source) = 5 /\ Len(conv.before) = 3
    /\ conv.ret = Ok(2)
    /\ conv.samples = <<Flt(0, 0), Flt(-1, 0), Untouched>>

OtherOrder(sformat) ==
    CASE sformat = "S16LE" -> "S16BE"
      [] sformat = "S16BE" -> "S16LE"
      [] sformat = "S24LE3" -> "S24BE3"
      [] sformat = "S24BE3" -> "S24LE3"
      [] sformat = "S24LE4" -> "S24BE4"
      [] sformat = "S24BE4" -> "S24LE4"
      [] sformat = "S32LE" -> "S32BE"
      [] sformat = "S32BE" -> "S32LE"
      [] sformat = "F32LE" -> "F32BE"
      [] sformat = "F32BE" -> "F32LE"
      [] sformat = "F64LE" -> "F64BE"
      [] sformat = "F64BE" -> "F64LE"

\* C29: for each width, value and sample type the encoding in one byte
\* order is the reversal of the encoding in the other, with the same
\* clipped flag, and the bytes decoded in one order give the value their
\* reversal gives in the other.
C29_ByteOrderSymmetry ==
    /\ conv.op = "encode" =>
          Encode(conv.T, OtherOrder(conv.fmt), conv.value) =
              [bytes |-> Reverse(conv.bytes), clipped |-> conv.clipped]
    /\ conv.op = "decode" =>
          Decode(conv.T, OtherOrder(conv.fmt), Reverse(conv.bytes)) = conv.value

\* the bytes of a 4-byte 24-bit sample with a padding that is not zero,
\* decoded big-endian
C29_Witness ==
    /\ conv.op = "decode" /\ conv.prev = "from_call" /\ conv.fmt = "S24BE4"
    /\ conv.bytes = <<255, 64, 0, 1>>
    /\ conv.value = Flt(4194305, -23)

(***************************************************************************)
(* The storage bounds of the flat wrappers                                 *)
(***************************************************************************)
\* the number of storage elements a sample takes
ElementsPerSample(w) == IF w.kind \in ByteKinds THEN w.bytes_per_sample ELSE 1

\* C26: with the products of usize taken modulo 2^w, whenever the
\* construction of a flat typed wrapper or of a byte wrapper succeeds,
\* every coordinate with channel < channels and frame < frames has an
\* offset whose sample lies within the storage, so that a checked access
\* stays inside the storage.
C26_StorageBounds ==
    (wrapper # NoWrapper /\ wrapper.kind \in TypedFlatKinds \cup ByteKinds) =>
        \A channel \in 0..(wrapper.channels - 1), frame \in 0..(wrapper.frames - 1) :
            calc_index(wrapper, channel, frame) + ElementsPerSample(wrapper) <= Len(buf)

(***************************************************************************)
(* The sessions of bulk transfers on the typed wrappers: injections into a *)
(* mutable wrapper, at most MaxWrites of them, and one extraction.         *)
(***************************************************************************)
BulkNext ==
    \/ WriteFromChannelToSlice
    \/ WriteFromFrameToSlice
    \/ ReadIntoChannelFromSlice
    \/ ReadIntoFrameFromSlice

SpecBulk == TypedInit /\ [][BulkNext]_vars

\* what the method of the trait returns for the call c on the wrapper w over
\* the storage b
TraitDefault(w, b, c) ==
    CASE c.op = "write_from_channel_to_slice" ->
            default_write_from_channel_to_slice(w, b, c.index, c.start, c.slice)
      [] c.op = "write_from_frame_to_slice" ->
            default_write_from_frame_to_slice(w, b, c.index, c.start, c.slice)
      [] c.op = "read_into_channel_from_slice" ->
            default_read_into_channel_from_slice(w, b, c.index, c.start, c.slice)
      [] c.op = "read_into_frame_from_slice" ->
            default_read_into_frame_from_slice(w, b, c.index, c.start, c.slice)

\* the wrappers that copy a range of the storage in the call c
Overrides(c) ==
    CASE c.op = "write_from_channel_to_slice" ->
            {"SequentialSlice", "SequentialSliceOfVecs"}
      [] c.op = "write_from_frame_to_slice" ->
            {"InterleavedSlice", "InterleavedSliceOfVecs"}
      [] c.op = "read_into_channel_from_slice" ->
            {"SequentialSlice", "SequentialSliceOfVecs"}
      [] c.op = "read_into_frame_from_slice" ->
            {"InterleavedSlice", "InterleavedSliceOfVecs"}

\* C27: a bulk transfer of a wrapper that copies a range of its storage
\* does what the element-by-element method of the trait does from the same
\* state with the same arguments: neither panics, both return the same
\* count and leave the same caller's slice (an extraction) or the same
\* storage (an injection), also when the storage is longer than
\* channels * frames.
C27_OverridesAsDefaults ==
    [][\A c \in {call'} :
          wrapper.kind \in Overrides(c) =>
              \E d \in {TraitDefault(wrapper, buf, c)} :
                  /\ d # Panic /\ d # Undefined
                  /\ c.ret # Panic /\ c.ret # Undefined
                  /\ c.ret.ret = d.ret
                  /\ IF c.op \in Observations
                     THEN c.ret.slice = d.slice /\ buf' = buf
                     ELSE buf' = d.buf]_vars

\* an extraction of two frames from the second channel of a SequentialSlice
\* whose storage has a slot to spare
C27_Witness ==
    /\ call.op = "write_from_channel_to_slice"
    /\ wrapper.kind = "SequentialSlice"
    /\ wrapper.channels = MaxChannels
    /\ wrapper.frames = MaxFrames
    /\ Len(buf) = wrapper.channels * wrapper.frames + 1
    /\ call.index = 1
    /\ call.start = 0
    /\ Len(call.slice) = 2
    /\ call.ret = default_write_from_channel_to_slice(wrapper, buf, 1, 0, call.slice)
    /\ call.ret.ret = 2
    /\ call.ret.slice[1] # call.ret.slice[2]

(***************************************************************************)
(* The sessions of the operations of the wrappers together.  A session is  *)
(* of one kind: at most one write to a typed wrapper, single or bulk, and  *)
(* an observation at its end; or iteration over a wrapper made by new; or  *)
(* one statistic of a wrapper of i8 samples.                               *)
(***************************************************************************)
\* a faulty getter, against which the constancy of the extents is
\* validated: it returns the other extent
channels_of_frames(w) == w.frames

\* channels() and frames() of every wrapper
channels_of(w) == w.channels

frames_of(w) == w.frames

StatOps == {"channel_rms", "frame_rms", "channel_peak_to_peak", "frame_peak_to_peak"}

\* the samples a typed storage holds
Held(w, b) ==
    IF w.kind \in TypedFlatKinds THEN {b[i] : i \in 1..Len(b)}
    ELSE UNION {{b[o][i] : i \in 1..Len(b[o])} : o \in 1..Len(b)}

Accessing == iters.made = 0 /\ call.op \notin StatOps

Iterating == ~wrapper.mutable /\ (iters.made > 0 \/ call.op = "new")

OfI8 == wrapper.kind \in TypedKinds /\ Held(wrapper, buf) \subseteq I8Min..I8Max

\* the session has written nothing yet
Unwritten == nwrites = 0

EffectsNext ==
    \/ Accessing /\ Get
    \/ Accessing /\ Read
    \/ Accessing /\ WriteFromChannelToSlice
    \/ Accessing /\ WriteFromFrameToSlice
    \/ Accessing /\ Unwritten /\ GetMut
    \/ Accessing /\ Unwritten /\ ReadIntoChannelFromSlice
    \/ Accessing /\ Unwritten /\ ReadIntoFrameFromSlice
    \/ Iterating /\ IterChannel
    \/ Iterating /\ IterFrame
    \/ Iterating /\ IterChannels
    \/ Iterating /\ IterFrames
    \/ Iterating /\ NextSample
    \/ Iterating /\ NextSamples
    \/ OfI8 /\ ChannelRms
    \/ OfI8 /\ FrameRms
    \/ OfI8 /\ ChannelPeakToPeak
    \/ OfI8 /\ FramePeakToPeak

SpecEffects == Init /\ [][EffectsNext]_vars

\* the operations that take &self
ReadOps ==
    {"get", "read", "write_from_channel_to_slice", "write_from_frame_to_slice",
     "iter_channel", "iter_frame", "iter_channels", "iter_frames"} \cup StatOps

\* a step of a read-side operation: a call of one of ReadOps, or next of an
\* iterator of the immutable form
ReadSide ==
    \/ call'.op \in ReadOps
    \/ /\ call'.op = "next"
       /\ IF call'.of \in {"ChannelSamples", "FrameSamples"}
          THEN ~iters.inner.mutable ELSE ~iters.outer.mutable

\* C25: channels() and frames() return the values given at construction
\* after every operation, read-side or write-side; and a read-side
\* operation (get, read, a bulk extraction, making or advancing an
\* immutable iterator, an RMS or a peak-to-peak, with the arguments in
\* range or not) leaves the storage and so every stored sample as it was.
C25_NoEffect ==
    /\ [](call.op \in {"new", "new_mut"} =>
            channels_of(wrapper) = call.channels /\ frames_of(wrapper) = call.frames)
    /\ [][/\ channels_of(wrapper') = channels_of(wrapper)
          /\ frames_of(wrapper') = frames_of(wrapper)
          /\ ReadSide => (buf' = buf /\ Snapshot(wrapper', buf') = Snapshot(wrapper, buf))]_vars

\* the second sample of an immutable iterator over a channel, made of a
\* wrapper with two channels and three frames
C25_Witness ==
    /\ call.op = "next"
    /\ call.of = "ChannelSamples"
    /\ ~iters.inner.mutable
    /\ iters.calls = 2
    /\ channels_of(wrapper) = MaxChannels
    /\ frames_of(wrapper) = MaxFrames
    /\ call.ret.some
    /\ Snapshot(wrapper, buf) = iters.start

====
